---- MODULE Spec2Model ----
(***************************************************************************)
(* A model of the OpenGL renderer core of the VLC tree:                    *)
(*   modules/video_output/opengl/renderer.c          (renderer life cycle, *)
(*                                                    matrices, geometry)  *)
(*   modules/video_output/opengl/fragment_shaders.c  (conversion matrix,   *)
(*                                                    shader generator)    *)
(* and of two plugins of the same tree:                                    *)
(*   modules/codec/rav1e.c                           (encoder set-up)      *)
(*   modules/misc/listenbrainz.c                     (listen submission)   *)
(*                                                                         *)
(* Floating point values that come out of libm (tanf, atanf, sinf, sqrtf)  *)
(* are kept as terms: a term is a sequence of strings in prefix notation,  *)
(* so two values are equal in the model exactly when the code computed     *)
(* them by the same expression from the same inputs.  Values the code      *)
(* only adds, multiplies and divides are exact rationals <<num, den>>.     *)
(* Angles are integers in hundredths of a degree.                          *)
(***************************************************************************)
EXTENDS Integers, Sequences, FiniteSets, TLC

VARIABLES
    pc,        \* life cycle of the renderer: "none", "live", "null", "abort", "deleted"
    renderer,  \* struct vlc_gl_renderer
    gl,        \* the GL context: objects created and deleted, draw calls issued
    call,      \* the last call made, its arguments and what it returned
    conv,      \* conversion matrix under construction (fragment_shaders.c)
    geom,      \* mesh handed back by the geometry builders
    mat,       \* orientation matrices multiplied so far and the stereo matrix built
    twin,      \* a second renderer of the same format, with a call history of its own
    enc,       \* the rav1e encoder: its options and what OpenEncoder made of them
    lb         \* the ListenBrainz plugin, its submission thread and its listeners

vars == <<pc, renderer, gl, call, conv, geom, mat, twin, enc, lb>>

(***************************************************************************)
(* Return codes (vlc_common.h).                                            *)
(***************************************************************************)
VLC_SUCCESS == "VLC_SUCCESS"
VLC_EGENERIC == "VLC_EGENERIC"
VLC_ENOMEM == "VLC_ENOMEM"
VLC_EBADVAR == "VLC_EBADVAR"

(***************************************************************************)
(* Terms for single precision values.                                      *)
(***************************************************************************)
Num(n) == <<ToString(n)>>
Flt(s) == <<s>>
App1(f, a) == <<f>> \o a
App2(f, a, b) == <<f>> \o a \o b

Zero == Num(0)
One == Num(1)
Tanf(a) == App1("tanf", a)
Atanf(a) == App1("atanf", a)
Sinf(a) == App1("sinf", a)
Sqrtf(a) == App1("sqrtf", a)
Neg(a) == App1("neg", a)
Add(a, b) == App2("+", a, b)
Sub(a, b) == App2("-", a, b)
Mul(a, b) == App2("*", a, b)
Div(a, b) == App2("/", a, b)
\* an angle of the model (hundredths of a degree) as the radians the code holds
Rad(cdeg) == App1("rad", Num(cdeg))

(***************************************************************************)
(* renderer.c: constants                                                   *)
(***************************************************************************)
SPHERE_RADIUS == One

\* vlc_viewpoint.h: 20.f and 150.f degrees, here in hundredths of a degree
FIELD_OF_VIEW_DEGREES_MIN == 20 * 100
FIELD_OF_VIEW_DEGREES_MAX == 150 * 100

\* UpdateZ: z_thresh = 90.f degrees
z_thresh == 90 * 100

\* SetViewpoint: 0.001f radian is 5.73 hundredths of a degree, so on whole
\* hundredths fabsf(d) >= 0.001f is |d| >= 6
FovChangeThreshold == 6

identity ==
    << One,  Zero, Zero, Zero,
       Zero, One,  Zero, Zero,
       Zero, Zero, One,  Zero,
       Zero, Zero, Zero, One >>

getZoomMatrix(zoom) ==
    << One,  Zero, Zero, Zero,
       Zero, One,  Zero, Zero,
       Zero, Zero, One,  Zero,
       Zero, Zero, zoom, One >>

getProjectionMatrix(sar, fovy) ==
    LET zFar  == Flt("1000")
        zNear == Flt("0.01")
        f     == Div(One, Tanf(Div(fovy, Num(2))))
    IN  << Div(f, sar), Zero, Zero, Zero,
           Zero, f, Zero, Zero,
           Zero, Zero, Div(Add(zNear, zFar), Sub(zNear, zFar)), Neg(One),
           Zero, Zero, Div(Mul(Mul(Num(2), zNear), zFar), Sub(zNear, zFar)), Zero >>

(***************************************************************************)
(* src/misc/viewpoint.c (not among the sources): the reversed viewpoint    *)
(* and the 4x4 view matrix of a viewpoint.                                 *)
(***************************************************************************)
vlc_viewpoint_reverse(src) ==
    [yaw |-> -src.yaw, pitch |-> -src.pitch, roll |-> -src.roll, fov |-> src.fov]

vlc_viewpoint_to_4x4(vp) ==
    [i \in 1..16 |->
        <<"vlc_viewpoint_to_4x4", ToString(i - 1),
          ToString(vp.yaw), ToString(vp.pitch), ToString(vp.roll)>>]

PROJECTION_MODE_RECTANGULAR == "PROJECTION_MODE_RECTANGULAR"
PROJECTION_MODE_EQUIRECTANGULAR == "PROJECTION_MODE_EQUIRECTANGULAR"
PROJECTION_MODE_CUBEMAP_LAYOUT_STANDARD == "PROJECTION_MODE_CUBEMAP_LAYOUT_STANDARD"

\* a getViewpointMatrixes that forgets the projection mode
getViewpointMatrixes_AnyMode(r, projection_mode) ==
    [r EXCEPT !.ProjectionMatrix = getProjectionMatrix(Num(r.f_sar), r.f_fovy),
              !.ZoomMatrix = getZoomMatrix(r.f_z),
              !.ViewMatrix = vlc_viewpoint_to_4x4(r.vp)]

getViewpointMatrixes(r, projection_mode) ==
    IF projection_mode = PROJECTION_MODE_EQUIRECTANGULAR
       \/ projection_mode = PROJECTION_MODE_CUBEMAP_LAYOUT_STANDARD
    THEN [r EXCEPT !.ProjectionMatrix = getProjectionMatrix(Num(r.f_sar), r.f_fovy),
                   !.ZoomMatrix = getZoomMatrix(r.f_z),
                   !.ViewMatrix = vlc_viewpoint_to_4x4(r.vp)]
    ELSE [r EXCEPT !.ProjectionMatrix = identity,
                   !.ZoomMatrix = identity,
                   !.ViewMatrix = identity]

\* an UpdateZ whose slope spans the whole FOV range instead of the part above z_thresh
UpdateZ_FullSpan(r) ==
    LET tan_fovx_2 == Tanf(Div(Rad(r.f_fovx), Num(2)))
        tan_fovy_2 == Tanf(Div(r.f_fovy, Num(2)))
        z_min == Neg(Div(SPHERE_RADIUS,
                         Sinf(Atanf(Sqrtf(Add(Mul(tan_fovx_2, tan_fovx_2),
                                              Mul(tan_fovy_2, tan_fovy_2)))))))
        f == Div(z_min, Rad(FIELD_OF_VIEW_DEGREES_MAX))
        lin == Sub(Mul(f, Rad(r.f_fovx)), Mul(f, Rad(z_thresh)))
    IN  IF r.f_fovx <= z_thresh
        THEN [r EXCEPT !.f_z = Zero]
        ELSE [r EXCEPT !.f_z = App2("lower_bounded_by", lin, z_min)]

UpdateZ(r) ==
    LET tan_fovx_2 == Tanf(Div(Rad(r.f_fovx), Num(2)))
        tan_fovy_2 == Tanf(Div(r.f_fovy, Num(2)))
        z_min == Neg(Div(SPHERE_RADIUS,
                         Sinf(Atanf(Sqrtf(Add(Mul(tan_fovx_2, tan_fovx_2),
                                              Mul(tan_fovy_2, tan_fovy_2)))))))
        f == Div(z_min, Rad(FIELD_OF_VIEW_DEGREES_MAX - z_thresh))
        lin == Sub(Mul(f, Rad(r.f_fovx)), Mul(f, Rad(z_thresh)))
    IN  IF r.f_fovx <= z_thresh
        THEN [r EXCEPT !.f_z = Zero]
        ELSE [r EXCEPT !.f_z = App2("lower_bounded_by", lin, z_min)]

UpdateFOVy(r) ==
    [r EXCEPT !.f_fovy =
        Mul(Num(2), Atanf(Div(Tanf(Div(Rad(r.f_fovx), Num(2))), Num(r.f_sar))))]

(***************************************************************************)
(* Exact rationals <<num, den>>, den > 0, in lowest terms.                 *)
(***************************************************************************)
Abs(n) == IF n < 0 THEN -n ELSE n

RECURSIVE GCD(_, _)
GCD(a, b) == IF b = 0 THEN a ELSE GCD(b, a % b)

Rat(n, d) ==
    LET g == GCD(Abs(n), Abs(d))
        sgn == IF d < 0 THEN -1 ELSE 1
    IN  IF d = 0 THEN <<n, 0>> ELSE <<sgn * (n \div g), sgn * (d \div g)>>

RInt(n) == <<n, 1>>
RNeg(a) == <<-a[1], a[2]>>
RMul(a, b) ==
    LET p == Rat(a[1], b[2])
        q == Rat(b[1], a[2])
    IN  Rat(p[1] * q[1], p[2] * q[2])
RDiv(a, b) == RMul(a, Rat(b[2], b[1]))
RAdd(a, b) ==
    LET g == GCD(a[2], b[2])
        l == (a[2] \div g) * b[2]
    IN  Rat(a[1] * (l \div a[2]) + b[1] * (l \div b[2]), l)
RSub(a, b) == RAdd(a, RNeg(b))
RLeq(a, b) == RSub(a, b)[1] <= 0

(***************************************************************************)
(* src/misc/fourcc.c (not among the sources): the chroma descriptions the  *)
(* generator asks for.  plane_count, pixel_size (bytes), pixel_bits, and   *)
(* whether vlc_fourcc_IsYUV() holds.  A code with no description has       *)
(* plane_count 0 here (vlc_fourcc_GetChromaDescription returns NULL).      *)
(***************************************************************************)
ChromaTable ==
    [ VLC_CODEC_I420     |-> [plane_count |-> 3, pixel_size |-> 1, pixel_bits |-> 8,  yuv |-> TRUE],
      VLC_CODEC_YV12     |-> [plane_count |-> 3, pixel_size |-> 1, pixel_bits |-> 8,  yuv |-> TRUE],
      VLC_CODEC_YV9      |-> [plane_count |-> 3, pixel_size |-> 1, pixel_bits |-> 8,  yuv |-> TRUE],
      VLC_CODEC_I420_9L  |-> [plane_count |-> 3, pixel_size |-> 2, pixel_bits |-> 9,  yuv |-> TRUE],
      VLC_CODEC_I420_10L |-> [plane_count |-> 3, pixel_size |-> 2, pixel_bits |-> 10, yuv |-> TRUE],
      VLC_CODEC_I420_12L |-> [plane_count |-> 3, pixel_size |-> 2, pixel_bits |-> 12, yuv |-> TRUE],
      VLC_CODEC_I420_16L |-> [plane_count |-> 3, pixel_size |-> 2, pixel_bits |-> 16, yuv |-> TRUE],
      VLC_CODEC_NV12     |-> [plane_count |-> 2, pixel_size |-> 1, pixel_bits |-> 8,  yuv |-> TRUE],
      VLC_CODEC_NV21     |-> [plane_count |-> 2, pixel_size |-> 1, pixel_bits |-> 8,  yuv |-> TRUE],
      VLC_CODEC_P010     |-> [plane_count |-> 2, pixel_size |-> 2, pixel_bits |-> 10, yuv |-> TRUE],
      VLC_CODEC_P016     |-> [plane_count |-> 2, pixel_size |-> 2, pixel_bits |-> 16, yuv |-> TRUE],
      VLC_CODEC_UYVY     |-> [plane_count |-> 1, pixel_size |-> 2, pixel_bits |-> 16, yuv |-> TRUE],
      VLC_CODEC_YUYV     |-> [plane_count |-> 1, pixel_size |-> 2, pixel_bits |-> 16, yuv |-> TRUE],
      VLC_CODEC_VYUY     |-> [plane_count |-> 1, pixel_size |-> 2, pixel_bits |-> 16, yuv |-> TRUE],
      VLC_CODEC_YVYU     |-> [plane_count |-> 1, pixel_size |-> 2, pixel_bits |-> 16, yuv |-> TRUE],
      VLC_CODEC_Y211     |-> [plane_count |-> 1, pixel_size |-> 1, pixel_bits |-> 8,  yuv |-> TRUE],
      VLC_CODEC_YUVA     |-> [plane_count |-> 4, pixel_size |-> 1, pixel_bits |-> 8,  yuv |-> TRUE],
      VLC_CODEC_RGBA     |-> [plane_count |-> 1, pixel_size |-> 4, pixel_bits |-> 32, yuv |-> FALSE],
      VLC_CODEC_XYZ12    |-> [plane_count |-> 1, pixel_size |-> 6, pixel_bits |-> 48, yuv |-> FALSE],
      UNKNOWN_FOURCC     |-> [plane_count |-> 0, pixel_size |-> 0, pixel_bits |-> 0,  yuv |-> FALSE] ]

Chromas == DOMAIN ChromaTable
vlc_fourcc_GetChromaDescription(chroma) == ChromaTable[chroma]
vlc_fourcc_IsYUV(chroma) == ChromaTable[chroma].yuv

ColorSpaces == {"COLOR_SPACE_UNDEF", "COLOR_SPACE_BT601", "COLOR_SPACE_BT709", "COLOR_SPACE_BT2020"}
ColorRanges == {"COLOR_RANGE_UNDEF", "COLOR_RANGE_FULL", "COLOR_RANGE_LIMITED"}
COLOR_RANGE_LIMITED == "COLOR_RANGE_LIMITED"

(***************************************************************************)
(* fragment_shaders.c: the conversion matrix.                              *)
(* An entry of the matrix is [b |-> sum, s |-> rational] and stands for    *)
(* (the sum of the rationals of b) * s: b holds the non-zero products      *)
(* space_matrix[..] * range_matrix[..] the code adds up, s the range       *)
(* correction applied afterwards.  The sums and the corrected products of  *)
(* the BT.709 and BT.2020 coefficients leave 32 bits, so they stay         *)
(* unevaluated.  Zero is the empty sum, and zero times anything is zero.   *)
(***************************************************************************)
Entry(terms) == [b |-> SelectSeq(terms, LAMBDA q : q[1] # 0), s |-> RInt(1)]
EntryZero == Entry(<<>>)
EntryOne == Entry(<<RInt(1)>>)
EntryTimes(e, r) == IF e.b = <<>> THEN e ELSE [e EXCEPT !.s = RMul(e.s, r)]

MATRIX_COLOR_RANGE_LIMITED ==
    << Rat(255, 219), RInt(0), RInt(0), RNeg(RMul(Rat(255, 219), Rat(16, 255))),
       RInt(0), Rat(255, 224), RInt(0), RNeg(RMul(Rat(255, 224), Rat(128, 255))),
       RInt(0), RInt(0), Rat(255, 224), RNeg(RMul(Rat(255, 224), Rat(128, 255))) >>

MATRIX_COLOR_RANGE_FULL ==
    << RInt(1), RInt(0), RInt(0), RInt(0),
       RInt(0), RInt(1), RInt(0), Rat(-128, 255),
       RInt(0), RInt(0), RInt(1), Rat(-128, 255) >>

MATRIX_YUV_TO_RGB_(KR, KG, KB) ==
    LET one_KR == RSub(RInt(1), KR)
        one_KB == RSub(RInt(1), KB)
    IN  << RInt(1), RInt(0), RMul(RInt(2), one_KR),
           RInt(1), RMul(RMul(RInt(-2), one_KB), RDiv(KB, KG)),
                    RMul(RMul(RInt(-2), one_KR), RDiv(KR, KG)),
           RInt(1), RMul(RInt(2), one_KB), RInt(0) >>

MATRIX_YUV_TO_RGB(KR, KB) ==
    MATRIX_YUV_TO_RGB_(KR, RSub(RSub(RInt(1), KR), KB), KB)

MATRIX_BT601 == MATRIX_YUV_TO_RGB(Rat(299, 1000), Rat(114, 1000))
MATRIX_BT709 == MATRIX_YUV_TO_RGB(Rat(2126, 10000), Rat(722, 10000))
MATRIX_BT2020 == MATRIX_YUV_TO_RGB(Rat(2627, 10000), Rat(593, 10000))

\* conv_matrix_out[x * 4 + y], x in 0..3, y in 0..2, and the fourth row
init_conv_matrix(color_space, color_range) ==
    LET \* the multiplication of the two matrices and the fourth row
        product(space_matrix, range_matrix) ==
            [i \in 1..16 |->
                LET x == (i - 1) \div 4
                    y == (i - 1) % 4
                IN  IF y < 3
                    THEN Entry([k \in 1..3 |->
                                  RMul(space_matrix[y * 3 + k], range_matrix[(k - 1) * 4 + x + 1])])
                    ELSE IF i = 16 THEN EntryOne ELSE EntryZero]
    IN  product(CASE color_space = "COLOR_SPACE_BT601" -> MATRIX_BT601
                  [] color_space = "COLOR_SPACE_BT2020" -> MATRIX_BT2020
                  [] OTHER -> MATRIX_BT709,
                IF color_range = "COLOR_RANGE_FULL"
                THEN MATRIX_COLOR_RANGE_FULL
                ELSE MATRIX_COLOR_RANGE_LIMITED)

\* (float)((1 << 16) - 1) / ((1 << desc->pixel_bits) - 1)
yuv_range_correction(desc) == Rat(2^16 - 1, 2^(desc.pixel_bits) - 1)

\* for (int i = 0; i < 4*3; ++i) matrix[i] *= yuv_range_correction;
\* a range correction that runs over all sixteen entries
RangeCorrect_All(matrix, r) ==
    [i \in 1..16 |-> EntryTimes(matrix[i], r)]

\* a range correction that runs over rows 0 to 2 of every column
RangeCorrect_Rows(matrix, r) ==
    [i \in 1..16 |-> IF (i - 1) % 4 < 3 THEN EntryTimes(matrix[i], r) ELSE matrix[i]]

RangeCorrect(matrix, r) ==
    [i \in 1..16 |-> IF i - 1 < 4 * 3 THEN EntryTimes(matrix[i], r) ELSE matrix[i]]

\* a swap that copies column 1 back from the matrix instead of from tmp
SwapUV_NoTmp(matrix) ==
    LET m1 == [i \in 1..16 |-> IF i \in 5..8 THEN matrix[i + 4] ELSE matrix[i]]
    IN  [i \in 1..16 |-> IF i \in 9..12 THEN m1[i - 4] ELSE m1[i]]

\* tmp <- column1; column1 <- column2; column2 <- tmp (column-major)
SwapUV(matrix) ==
    LET tmp == [j \in 1..4 |-> matrix[4 + j]]
        m1 == [i \in 1..16 |-> IF i \in 5..8 THEN matrix[i + 4] ELSE matrix[i]]
    IN  [i \in 1..16 |-> IF i \in 9..12 THEN tmp[i - 8] ELSE m1[i]]

swap_uv(chroma) ==
    chroma \in {"VLC_CODEC_YV12", "VLC_CODEC_YV9", "VLC_CODEC_NV21"}

\* returns the renderer with conv_matrix and yuv_color set (always VLC_SUCCESS)
renderer_yuv_base_init(r, chroma, desc, yuv_space) ==
    LET range == COLOR_RANGE_LIMITED
        corrected(matrix) ==
            IF desc.pixel_size = 2
               /\ chroma # "VLC_CODEC_P010" /\ chroma # "VLC_CODEC_P016"
            THEN RangeCorrect(matrix, yuv_range_correction(desc))
            ELSE matrix
        swapped(matrix) == IF swap_uv(chroma) THEN SwapUV(matrix) ELSE matrix
    IN  [r EXCEPT !.conv_matrix = swapped(corrected(init_conv_matrix(yuv_space, range))),
                  !.yuv_color = TRUE]

(***************************************************************************)
(* renderer.c: geometry.  A mesh is what the builder hands back: the       *)
(* return code, the counts and the three arrays (empty on failure).        *)
(* alloc_fail is the allocation, 1 to 3, that vlc_alloc refuses (0: none). *)
(***************************************************************************)
\* the builders' allocations that failing on the third leave vertexCoord behind
BuilderHeap_LeakFirst(alloc_fail) ==
    [allocated |-> CASE alloc_fail = 1 -> << >>
                     [] alloc_fail = 2 -> << "vertexCoord" >>
                     [] alloc_fail = 3 -> << "vertexCoord", "textureCoord" >>
                     [] OTHER -> << "vertexCoord", "textureCoord", "indices" >>,
     freed |-> CASE alloc_fail = 2 -> << "vertexCoord" >>
                 [] alloc_fail = 3 -> << "textureCoord" >>
                 [] OTHER -> << >>]

\* the arrays vlc_alloc handed to a builder, in order, and its calls of free().
\* The three builders allocate and give up in the same way.
BuilderHeap(alloc_fail) ==
    [allocated |-> CASE alloc_fail = 1 -> << >>
                     [] alloc_fail = 2 -> << "vertexCoord" >>
                     [] alloc_fail = 3 -> << "vertexCoord", "textureCoord" >>
                     [] OTHER -> << "vertexCoord", "textureCoord", "indices" >>,
     freed |-> CASE alloc_fail = 2 -> << "vertexCoord" >>
                 [] alloc_fail = 3 -> << "textureCoord", "vertexCoord" >>
                 [] OTHER -> << >>]

NoHeap == [allocated |-> << >>, freed |-> << >>]

NoMesh ==
    [ret |-> VLC_EGENERIC, nbVertices |-> 0, nbIndices |-> 0,
     vertexCoord |-> <<>>, textureCoord |-> <<>>, indices |-> <<>>, heap |-> NoHeap]

AllocFailed(nbVertices, nbIndices, alloc_fail) ==
    [NoMesh EXCEPT !.ret = VLC_ENOMEM, !.nbVertices = nbVertices, !.nbIndices = nbIndices,
                   !.heap = BuilderHeap(alloc_fail)]

\* a rectangle that counts its vertices as its indices
BuildRectangle_FourIndices(alloc_fail) ==
    IF alloc_fail # 0 THEN AllocFailed(4, 4, alloc_fail)
    ELSE [ret |-> VLC_SUCCESS, heap |-> BuilderHeap(alloc_fail), nbVertices |-> 4, nbIndices |-> 4,
          vertexCoord |-> << -1, 1, -1,   -1, -1, -1,   1, 1, -1,   1, -1, -1 >>,
          textureCoord |-> << RInt(0), RInt(0),  RInt(0), RInt(1),
                              RInt(1), RInt(0),  RInt(1), RInt(1) >>,
          indices |-> << 0, 1, 2, 3 >>]

BuildRectangle(alloc_fail) ==
    IF alloc_fail # 0 THEN AllocFailed(4, 6, alloc_fail)
    ELSE [ret |-> VLC_SUCCESS, heap |-> BuilderHeap(alloc_fail), nbVertices |-> 4, nbIndices |-> 6,
          vertexCoord |-> << -1, 1, -1,   -1, -1, -1,   1, 1, -1,   1, -1, -1 >>,
          textureCoord |-> << RInt(0), RInt(0),  RInt(0), RInt(1),
                              RInt(1), RInt(0),  RInt(1), RInt(1) >>,
          indices |-> << 0, 1, 2,   2, 1, 3 >>]

\* a cube whose padding is applied outwards instead of inwards
BuildCube_PadOutwards(padW, padH, alloc_fail) ==
    LET col == << RInt(0), Rat(1, 3), Rat(2, 3), RInt(1) >>
        row == << RInt(0), Rat(1, 2), RInt(1) >>
        cP(i) == RSub(col[i + 1], padW)
        cM(i) == RAdd(col[i + 1], padW)
        rP(i) == RSub(row[i + 1], padH)
        rM(i) == RAdd(row[i + 1], padH)
    IN  IF alloc_fail # 0 THEN AllocFailed(4 * 6, 6 * 6, alloc_fail)
        ELSE [ret |-> VLC_SUCCESS, heap |-> BuilderHeap(alloc_fail), nbVertices |-> 4 * 6, nbIndices |-> 6 * 6,
              vertexCoord |-> [i \in 1..(4 * 6 * 3) |-> IF i % 2 = 0 THEN 1 ELSE -1],
              textureCoord |->
                << cP(1), rP(1),  cP(1), rM(2),  cM(2), rP(1),  cM(2), rM(2),
                   cM(3), rP(1),  cM(3), rM(2),  cP(2), rP(1),  cP(2), rM(2),
                   cM(2), rP(0),  cM(2), rM(1),  cP(1), rP(0),  cP(1), rM(1),
                   cP(0), rP(0),  cP(0), rM(1),  cM(1), rP(0),  cM(1), rM(1),
                   cP(0), rM(2),  cP(0), rP(1),  cM(1), rM(2),  cM(1), rP(1),
                   cP(2), rP(0),  cP(2), rM(1),  cM(3), rP(0),  cM(3), rM(1) >>,
              indices |-> [i \in 1..(6 * 6) |-> (i - 1) % 24]]

BuildCube(padW, padH, alloc_fail) ==
    LET col == << RInt(0), Rat(1, 3), Rat(2, 3), RInt(1) >>
        row == << RInt(0), Rat(1, 2), RInt(1) >>
        cP(i) == RAdd(col[i + 1], padW)
        cM(i) == RSub(col[i + 1], padW)
        rP(i) == RAdd(row[i + 1], padH)
        rM(i) == RSub(row[i + 1], padH)
    IN  IF alloc_fail # 0 THEN AllocFailed(4 * 6, 6 * 6, alloc_fail)
        ELSE [ret |-> VLC_SUCCESS, heap |-> BuilderHeap(alloc_fail), nbVertices |-> 4 * 6, nbIndices |-> 6 * 6,
              vertexCoord |->
                << -1,  1, -1,   -1, -1, -1,    1,  1, -1,    1, -1, -1,
                   -1,  1,  1,   -1, -1,  1,    1,  1,  1,    1, -1,  1,
                   -1,  1, -1,   -1, -1, -1,   -1,  1,  1,   -1, -1,  1,
                    1,  1, -1,    1, -1, -1,    1,  1,  1,    1, -1,  1,
                   -1, -1,  1,   -1, -1, -1,    1, -1,  1,    1, -1, -1,
                   -1,  1,  1,   -1,  1, -1,    1,  1,  1,    1,  1, -1 >>,
              textureCoord |->
                << cP(1), rP(1),  cP(1), rM(2),  cM(2), rP(1),  cM(2), rM(2),
                   cM(3), rP(1),  cM(3), rM(2),  cP(2), rP(1),  cP(2), rM(2),
                   cM(2), rP(0),  cM(2), rM(1),  cP(1), rP(0),  cP(1), rM(1),
                   cP(0), rP(0),  cP(0), rM(1),  cM(1), rP(0),  cM(1), rM(1),
                   cP(0), rM(2),  cP(0), rP(1),  cM(1), rM(2),  cM(1), rP(1),
                   cP(2), rP(0),  cP(2), rM(1),  cM(3), rP(0),  cM(3), rM(1) >>,
              indices |->
                <<  0,  1,  2,    2,  1,  3,
                    6,  7,  4,    4,  7,  5,
                   10, 11,  8,    8, 11,  9,
                   12, 13, 14,   14, 13, 15,
                   18, 19, 16,   16, 19, 17,
                   20, 21, 22,   22, 21, 23 >>]

(***************************************************************************)
(* fragment_shaders.c: the fragment shader generator.                      *)
(* The shader text is the sequence of its statements, a statement being a  *)
(* sequence of strings.  build says how the tree was built and what the    *)
(* GL offers: NDEBUG (assert compiled out), HAVE_LIBPLACEBO with a shader  *)
(* allocated (pl_sh), GL_ARB_texture_rg (texture_rg), and ub, what the     *)
(* build does where the C code has undefined behaviour.                    *)
(***************************************************************************)
PICTURE_PLANE_MAX == 5

GL_TEXTURE_2D == "GL_TEXTURE_2D"
GL_TEXTURE_RECTANGLE == "GL_TEXTURE_RECTANGLE"
GL_TEXTURE_EXTERNAL_OES == "GL_TEXTURE_EXTERNAL_OES"
TexTargets == {GL_TEXTURE_2D, GL_TEXTURE_RECTANGLE, GL_TEXTURE_EXTERNAL_OES}

NullSwizzle == [null |-> TRUE, s |-> <<>>]
Swizzle(chars) == [null |-> FALSE, s |-> chars]

\* ret: VLC_SUCCESS, VLC_EGENERIC, or "abort" when assert(!"missing chroma") fires
opengl_init_swizzle(build, chroma, desc) ==
    LET oneplane_texfmt == IF build.texture_rg THEN "GL_RED" ELSE "GL_LUMINANCE"
        none == [i \in 1..PICTURE_PLANE_MAX |-> NullSwizzle]
        set(f) == [i \in 1..PICTURE_PLANE_MAX |-> IF i \in DOMAIN f THEN f[i] ELSE NullSwizzle]
    IN  IF desc.plane_count = 3
        THEN [ret |-> VLC_SUCCESS,
              swizzle_per_tex |-> set(<<Swizzle(<<"r">>), Swizzle(<<"r">>), Swizzle(<<"r">>)>>)]
        ELSE IF desc.plane_count = 2
        THEN IF oneplane_texfmt = "GL_RED"
             THEN [ret |-> VLC_SUCCESS,
                   swizzle_per_tex |-> set(<<Swizzle(<<"r">>), Swizzle(<<"r", "g">>)>>)]
             ELSE [ret |-> VLC_SUCCESS,
                   swizzle_per_tex |-> set(<<Swizzle(<<"x">>), Swizzle(<<"x", "a">>)>>)]
        ELSE IF desc.plane_count = 1
        THEN CASE chroma = "VLC_CODEC_UYVY" ->
                    [ret |-> VLC_SUCCESS, swizzle_per_tex |-> set(<<Swizzle(<<"g", "r", "b">>)>>)]
               [] chroma = "VLC_CODEC_YUYV" ->
                    [ret |-> VLC_SUCCESS, swizzle_per_tex |-> set(<<Swizzle(<<"r", "g", "a">>)>>)]
               [] chroma = "VLC_CODEC_VYUY" ->
                    [ret |-> VLC_SUCCESS, swizzle_per_tex |-> set(<<Swizzle(<<"g", "b", "r">>)>>)]
               [] chroma = "VLC_CODEC_YVYU" ->
                    [ret |-> VLC_SUCCESS, swizzle_per_tex |-> set(<<Swizzle(<<"r", "a", "g">>)>>)]
               [] OTHER ->
                    [ret |-> IF build.NDEBUG THEN VLC_EGENERIC ELSE "abort",
                     swizzle_per_tex |-> none]
        ELSE [ret |-> VLC_SUCCESS, swizzle_per_tex |-> none]

xyz12_template ==
    << <<"uniform", "sampler2D", "Texture0">>,
       <<"uniform", "vec4", "xyz_gamma", "vec4(2.6)">>,
       <<"uniform", "vec4", "rgb_gamma", "vec4(1.0/2.2)">>,
       <<"uniform", "mat4", "matrix_xyz_rgb">>,
       <<"uniform", "mat4", "TransformMatrix">>,
       <<"uniform", "mat4", "OrientationMatrix">>,
       <<"uniform", "mat3", "TexCoordsMap0">>,
       <<"vec4 vlc_texture(vec2 pic_coords) {">>,
       <<"vec4 v_in, v_out;">>,
       <<"pic_hcoords", "TransformMatrix * OrientationMatrix * pic_coords">>,
       <<"tex_coords", "TexCoordsMap0", "pic_hcoords">>,
       <<"fetch", "v_in", "texture2D", "Texture0", "tex_coords">>,
       <<"v_in = pow(v_in, xyz_gamma);">>,
       <<"v_out = matrix_xyz_rgb * v_in;">>,
       <<"v_out = pow(v_out, rgb_gamma);">>,
       <<"v_out = clamp(v_out, 0.0, 1.0);">>,
       <<"return v_out;">>,
       <<"}">> >>

\* for (j < swizzle_count): pixel[color_idx] = texel.<swizzle[j]>; color_idx++
SwizzleStores(sw, color_idx) ==
    [j \in 1..Len(sw) |-> <<"store", "pixel", ToString(color_idx + j - 1), "texel", sw[j]>>]

\* the loop over the texture units of a YUV format, from unit i on;
\* st is [text, color_idx, ret, assert_failed]
RECURSIVE YuvUnits(_, _, _, _, _, _, _)
YuvUnits(i, tex_count, swizzle_per_tex, tex_target, lookup, build, st) ==
    IF i >= tex_count \/ st.ret # "ok" THEN st
    ELSE
      LET sw == swizzle_per_tex[i + 1]
          n == ToString(i)
          fetch ==
              << <<"tex_coords", "TexCoordsMap" \o n, "pic_hcoords">> >>
              \o (IF tex_target = GL_TEXTURE_RECTANGLE
                  THEN << <<"scale", "tex_coords", "TexSize" \o n>> >>
                  ELSE << >>)
              \o << <<"fetch", "texel", lookup, "Texture" \o n, "tex_coords">> >>
          \* strlen(NULL): the build either faults or reads some length
          chars == IF sw.null THEN <<"?">> ELSE sw.s
          idx == st.color_idx + Len(chars)
          over == idx > PICTURE_PLANE_MAX
          next ==
              [st EXCEPT !.text = @ \o fetch \o SwizzleStores(chars, st.color_idx),
                         !.color_idx = idx,
                         !.assert_failed =
                             IF @ # "none" THEN @
                             ELSE IF sw.null THEN "swizzle"
                             ELSE IF over THEN "color_idx <= PICTURE_PLANE_MAX"
                             ELSE "none",
                         !.ret = IF sw.null /\ ~build.NDEBUG THEN "abort"
                                 ELSE IF sw.null /\ build.ub = "fault" THEN "fault"
                                 ELSE IF over /\ ~build.NDEBUG THEN "abort"
                                 ELSE "ok"]
      IN  YuvUnits(i + 1, tex_count, swizzle_per_tex, tex_target, lookup, build,
                   IF next.ret = "ok" THEN next
                   ELSE [next EXCEPT !.text = st.text, !.color_idx = st.color_idx])

\* What the function leaves: ret is "text" (a shader was returned), "NULL",
\* "abort" (an assertion stopped the process) or "fault" (undefined behaviour
\* ended it); r is the renderer as the call left it.
opengl_fragment_shader_init(r, interop, build, tex_target, chroma, yuv_space) ==
    LET is_yuv == vlc_fourcc_IsYUV(chroma)
        desc == vlc_fourcc_GetChromaDescription(chroma)
        none == [ret |-> "NULL", text |-> <<>>, color_count |-> 0,
                 assert_failed |-> "none", r |-> r]
        swz == opengl_init_swizzle(build, chroma, desc)
        sampler == CASE tex_target = GL_TEXTURE_EXTERNAL_OES -> "samplerExternalOES"
                     [] tex_target = GL_TEXTURE_2D -> "sampler2D"
                     [] tex_target = GL_TEXTURE_RECTANGLE -> "sampler2DRect"
        lookup == CASE tex_target = GL_TEXTURE_EXTERNAL_OES -> "texture2D"
                    [] tex_target = GL_TEXTURE_2D -> "texture2D"
                    [] tex_target = GL_TEXTURE_RECTANGLE -> "texture2DRect"
        decl(i) == << <<"uniform", sampler, "Texture" \o ToString(i)>>,
                      <<"uniform", "mat3", "TexCoordsMap" \o ToString(i)>> >>
        RECURSIVE Decls(_)
        Decls(i) == IF i >= interop.tex_count THEN << >> ELSE decl(i) \o Decls(i + 1)
        placebo == IF build.pl_sh
                   THEN << <<"uniform", "pl_glsl_type", "pl_var">>, <<"pl_glsl">> >>
                   ELSE << >>
        texsize == IF tex_target = GL_TEXTURE_RECTANGLE
                   THEN [i \in 1..interop.tex_count |->
                            <<"uniform", "vec2", "TexSize" \o ToString(i - 1)>>]
                   ELSE << >>
        head == << <<"uniform", "mat4", "TransformMatrix">>,
                   <<"uniform", "mat4", "OrientationMatrix">> >>
                \o Decls(0) \o placebo \o texsize
                \o (IF is_yuv THEN << <<"uniform", "mat4", "ConvMatrix">> >> ELSE << >>)
                \o << <<"uniform", "vec4", "FillColor">>,
                      <<"vec4 vlc_texture(vec2 pic_coords) {">>,
                      <<"pic_hcoords", "TransformMatrix * OrientationMatrix * pic_coords">>,
                      <<"vec2 tex_coords;">> >>
        yuv0 == [text |-> head \o << <<"vec4 texel;">>,
                                     <<"vec4 pixel = vec4(0.0, 0.0, 0.0, 1.0);">> >>,
                 color_idx |-> 0, ret |-> "ok", assert_failed |-> "none"]
        yuv == YuvUnits(0, interop.tex_count, swz.swizzle_per_tex, tex_target,
                        lookup, build, yuv0)
        body == IF is_yuv
                THEN [yuv EXCEPT !.text = @ \o << <<"vec4 result = ConvMatrix * pixel;">> >>]
                ELSE [text |-> head \o << <<"tex_coords", "TexCoordsMap0", "pic_hcoords">>,
                                          <<"fetch", "result", lookup, "Texture0", "tex_coords">> >>,
                      color_idx |-> 1, ret |-> "ok", assert_failed |-> "none"]
        color_count == body.color_idx
        last_ok == yuv_space = "COLOR_SPACE_UNDEF" \/ color_count = 3
        tail == (IF build.pl_sh THEN << <<"result = pl(result);">> >> ELSE << >>)
                \o << <<"return result * FillColor;">>, <<"}">> >>
        \* the rest of the function, r1 being the renderer after the YUV set-up
        generate(r1, code) ==
            IF is_yuv /\ swz.ret # VLC_SUCCESS
            THEN [none EXCEPT !.r = r1,
                              !.ret = IF swz.ret = "abort" THEN "abort" ELSE "NULL",
                              !.assert_failed =
                                  IF swz.ret = "abort" THEN "missing chroma" ELSE "none"]
            ELSE IF code.ret # "ok"
            THEN [ret |-> code.ret, text |-> code.text, color_count |-> code.color_idx,
                  assert_failed |-> code.assert_failed, r |-> r1]
            ELSE IF ~last_ok /\ ~build.NDEBUG
            THEN [ret |-> "abort", text |-> code.text, color_count |-> color_count,
                  assert_failed |-> "yuv_space == COLOR_SPACE_UNDEF || color_count == 3",
                  r |-> r1]
            ELSE [ret |-> "text", text |-> code.text \o tail, color_count |-> color_count,
                  assert_failed |-> IF code.assert_failed # "none" THEN code.assert_failed
                                    ELSE IF last_ok THEN "none"
                                    ELSE "yuv_space == COLOR_SPACE_UNDEF || color_count == 3",
                  r |-> [r1 EXCEPT !.pf_fetch_locations = "renderer_base_fetch_locations",
                                   !.pf_prepare_shader = "renderer_base_prepare_shader"]]
    IN  IF desc.plane_count = 0 THEN none
        ELSE IF chroma = "VLC_CODEC_XYZ12"
        THEN [ret |-> "text", text |-> xyz12_template, color_count |-> 0,
              assert_failed |-> "none",
              r |-> [r EXCEPT !.pf_fetch_locations = "renderer_xyz12_fetch_locations",
                              !.pf_prepare_shader = "renderer_xyz12_prepare_shader"]]
        ELSE generate(IF is_yuv THEN renderer_yuv_base_init(r, chroma, desc, yuv_space)
                      ELSE r,
                      body)

(***************************************************************************)
(* The GL context, as far as the renderer can tell: how often each object  *)
(* was created and deleted, the fragment source of the program that was    *)
(* built, the buffers that hold data, and the draw calls of the last Draw. *)
(* Deleting the name 0 is a no-op in GL.                                   *)
(***************************************************************************)
GLObjects ==
    {"program", "buffer1", "buffer2", "buffer3"}
    \cup {"texture" \o ToString(j) : j \in 1..PICTURE_PLANE_MAX}

GLInit ==
    [created |-> [o \in GLObjects |-> 0],
     deleted |-> [o \in GLObjects |-> 0],
     interop |-> "none",
     fragment_shader |-> <<>>,
     buffer_data |-> {},
     draws |-> <<>>]

GLCreate(g, o) == [g EXCEPT !.created[o] = @ + 1]
GLDelete(g, kind, name) ==
    IF name = 0 THEN g ELSE [g EXCEPT !.deleted[kind \o ToString(name)] = @ + 1]
DeleteProgram(g, id) == IF id = 0 THEN g ELSE [g EXCEPT !.deleted["program"] = @ + 1]

RECURSIVE DeleteTextures(_, _, _)
DeleteTextures(g, n, textures) ==
    IF n = 0 THEN g
    ELSE DeleteTextures(GLDelete(g, "texture", textures[n]), n - 1, textures)

(***************************************************************************)
(* renderer.c: BuildVertexShader, the names the vertex shader declares.    *)
(***************************************************************************)
VertexShaderNames ==
    {"PicCoordsIn", "VertexPosition", "StereoMatrix", "ProjectionMatrix",
     "ZoomMatrix", "ViewMatrix"}

\* the names a shader text declares as uniforms
DeclaredUniforms(text) ==
    {text[i][3] : i \in {k \in 1..Len(text) : Len(text[k]) >= 3 /\ text[k][1] = "uniform"}}

\* vt->GetUniformLocation / GetAttribLocation: -1 for a name the program does
\* not hold or that the GL optimised out (env.missing), else a location >= 0
GetLocation(env, declared, name) ==
    IF name \in declared /\ name # env.missing THEN 1 ELSE -1

\* renderer_base_fetch_locations: the names queried, in order
BaseFetchNames(r, interop) ==
    (IF r.yuv_color THEN <<"ConvMatrix">> ELSE << >>)
    \o [k \in 1..(IF interop.tex_target = GL_TEXTURE_RECTANGLE THEN 2 ELSE 1) * interop.tex_count |->
          IF interop.tex_target = GL_TEXTURE_RECTANGLE
          THEN (IF k % 2 = 1 THEN "Texture" ELSE "TexSize") \o ToString((k - 1) \div 2)
          ELSE "Texture" \o ToString(k - 1)]
    \o <<"FillColor">>

\* a query loop that goes on past a location that did not resolve
RECURSIVE FetchAll_GoOn(_, _, _, _, _)
FetchAll_GoOn(env, declared, names, i, uloc) ==
    IF i > Len(names) THEN [ret |-> VLC_SUCCESS, uloc |-> uloc, failed |-> "none"]
    ELSE FetchAll_GoOn(env, declared, names, i + 1,
                       [uloc EXCEPT ![names[i]] = GetLocation(env, declared, names[i])])

\* queries the names one after the other and stops at the first that fails;
\* [ret, uloc]
RECURSIVE FetchAll(_, _, _, _, _)
FetchAll(env, declared, names, i, uloc) ==
    IF i > Len(names) THEN [ret |-> VLC_SUCCESS, uloc |-> uloc, failed |-> "none"]
    ELSE LET loc == GetLocation(env, declared, names[i])
             u == [uloc EXCEPT ![names[i]] = loc]
         IN  IF loc = -1 THEN [ret |-> VLC_EGENERIC, uloc |-> u, failed |-> names[i]]
             ELSE FetchAll(env, declared, names, i + 1, u)

renderer_base_fetch_locations(r, interop, env, declared) ==
    FetchAll(env, declared, BaseFetchNames(r, interop), 1, r.uloc)

renderer_xyz12_fetch_locations(r, interop, env, declared) ==
    FetchAll(env, declared, <<"Texture0">>, 1, r.uloc)

\* GET_ULOC / GET_ALOC of opengl_link_program, in order
CoreNames(interop) ==
    <<"TransformMatrix", "OrientationMatrix", "StereoMatrix", "ProjectionMatrix",
      "ViewMatrix", "ZoomMatrix", "PicCoordsIn", "VertexPosition", "TexCoordsMap0">>
    \o (IF interop.tex_count > 1 THEN <<"TexCoordsMap1">> ELSE << >>)
    \o (IF interop.tex_count > 2 THEN <<"TexCoordsMap2">> ELSE << >>)

AllNames ==
    {"TransformMatrix", "OrientationMatrix", "StereoMatrix", "ProjectionMatrix",
     "ViewMatrix", "ZoomMatrix", "PicCoordsIn", "VertexPosition",
     "TexCoordsMap0", "TexCoordsMap1", "TexCoordsMap2", "ConvMatrix", "FillColor"}
    \cup {"Texture" \o ToString(j) : j \in 0..(PICTURE_PLANE_MAX - 1)}
    \cup {"TexSize" \o ToString(j) : j \in 0..(PICTURE_PLANE_MAX - 1)}

\* [ret, r, g]: ret is VLC_SUCCESS, VLC_EGENERIC, "abort" or "fault"
opengl_link_program(r, g, build, env) ==
    LET interop == r.interop
        program_id == IF env.fault = "build" THEN 0 ELSE 1
        \* the rest of the function, frag being the fragment shader that was built
        link(frag) ==
            LET r1 == frag.r
                g1 == [GLCreate(g, "program") EXCEPT !.fragment_shader = frag.text]
                declared == VertexShaderNames \cup DeclaredUniforms(frag.text)
                core == FetchAll(env, declared, CoreNames(interop), 1, r1.uloc)
                \* else branches: renderer->uloc.TexCoordsMap[1] = -1, [2] = -1
                uloc1 == [n \in DOMAIN core.uloc |->
                            IF n = "TexCoordsMap1" /\ interop.tex_count <= 1 THEN -1
                            ELSE IF n = "TexCoordsMap2" /\ interop.tex_count <= 2 THEN -1
                            ELSE core.uloc[n]]
                r2 == [r1 EXCEPT !.uloc = uloc1]
                fam == IF r1.pf_fetch_locations = "renderer_xyz12_fetch_locations"
                       THEN renderer_xyz12_fetch_locations(r2, interop, env, declared)
                       ELSE renderer_base_fetch_locations(r2, interop, env, declared)
                error(rr) == [ret |-> VLC_EGENERIC,
                              r |-> [rr EXCEPT !.program_id = 0],
                              g |-> DeleteProgram(g1, program_id)]
            IN  IF frag.ret \in {"abort", "fault"} THEN [ret |-> frag.ret, r |-> r1, g |-> g]
                ELSE IF frag.ret = "NULL" THEN [ret |-> VLC_EGENERIC, r |-> r1, g |-> g]
                ELSE IF program_id = 0 THEN [ret |-> VLC_EGENERIC, r |-> r1, g |-> g]
                ELSE IF core.ret # VLC_SUCCESS
                THEN IF ~build.NDEBUG
                     THEN [ret |-> "abort", r |-> [r1 EXCEPT !.uloc = core.uloc], g |-> g1]
                     ELSE error([r1 EXCEPT !.uloc = core.uloc])
                ELSE IF fam.ret # VLC_SUCCESS
                THEN IF ~build.NDEBUG
                     THEN [ret |-> "abort", r |-> [r2 EXCEPT !.uloc = fam.uloc], g |-> g1]
                     ELSE error([r2 EXCEPT !.uloc = fam.uloc])
                ELSE [ret |-> VLC_SUCCESS,
                      r |-> [r2 EXCEPT !.uloc = fam.uloc, !.program_id = program_id],
                      g |-> g1]
    IN  link(opengl_fragment_shader_init(r, interop, build, interop.tex_target,
                                         interop.sw_fmt.chroma, interop.sw_fmt.space))

(***************************************************************************)
(* renderer.c: orientation and stereo matrices.                            *)
(***************************************************************************)
Orientations ==
    {"ORIENT_NORMAL", "ORIENT_ROTATED_90", "ORIENT_ROTATED_180", "ORIENT_ROTATED_270",
     "ORIENT_HFLIPPED", "ORIENT_VFLIPPED", "ORIENT_TRANSPOSED", "ORIENT_ANTI_TRANSPOSED"}

\* m with the entries of upd (pairs <<column * 4 + row, value>>) written over it
Written(m, upd) ==
    [i \in 1..Len(m) |->
        IF \E u \in upd : u[1] + 1 = i THEN (CHOOSE u \in upd : u[1] + 1 = i)[2] ELSE m[i]]

identityInt ==
    << 1, 0, 0, 0,   0, 1, 0, 0,   0, 0, 1, 0,   0, 0, 0, 1 >>

\* an orientation switch whose half turn holds the entries of the quarter turn
getOrientationTransformMatrix_QuarterTurn(orientation) ==
    CASE orientation = "ORIENT_ROTATED_180" ->
            Written(identityInt, {<<0 * 4 + 0, 0>>, <<0 * 4 + 1, -1>>, <<1 * 4 + 0, 1>>,
                                  <<1 * 4 + 1, 0>>, <<3 * 4 + 1, 1>>})
      [] orientation = "ORIENT_HFLIPPED" ->
            Written(identityInt, {<<0 * 4 + 0, -1>>, <<3 * 4 + 0, 1>>})
      [] OTHER -> identityInt

getOrientationTransformMatrix(orientation) ==
    LET k_cos_pi == -1
        k_cos_pi_2 == 0
        k_cos_n_pi_2 == 0
        k_sin_pi == 0
        k_sin_pi_2 == 1
        k_sin_n_pi_2 == -1
    IN  CASE orientation = "ORIENT_ROTATED_90" ->
                Written(identityInt, {<<0 * 4 + 0, k_cos_pi_2>>, <<0 * 4 + 1, -k_sin_pi_2>>,
                                      <<1 * 4 + 0, k_sin_pi_2>>, <<1 * 4 + 1, k_cos_pi_2>>,
                                      <<3 * 4 + 1, 1>>})
          [] orientation = "ORIENT_ROTATED_180" ->
                Written(identityInt, {<<0 * 4 + 0, k_cos_pi>>, <<0 * 4 + 1, -k_sin_pi>>,
                                      <<1 * 4 + 0, k_sin_pi>>, <<1 * 4 + 1, k_cos_pi>>,
                                      <<3 * 4 + 0, 1>>, <<3 * 4 + 1, 1>>})
          [] orientation = "ORIENT_ROTATED_270" ->
                Written(identityInt, {<<0 * 4 + 0, k_cos_n_pi_2>>, <<0 * 4 + 1, -k_sin_n_pi_2>>,
                                      <<1 * 4 + 0, k_sin_n_pi_2>>, <<1 * 4 + 1, k_cos_n_pi_2>>,
                                      <<3 * 4 + 0, 1>>})
          [] orientation = "ORIENT_HFLIPPED" ->
                Written(identityInt, {<<0 * 4 + 0, -1>>, <<3 * 4 + 0, 1>>})
          [] orientation = "ORIENT_VFLIPPED" ->
                Written(identityInt, {<<1 * 4 + 1, -1>>, <<3 * 4 + 1, 1>>})
          [] orientation = "ORIENT_TRANSPOSED" ->
                Written(identityInt, {<<0 * 4 + 0, 0>>, <<1 * 4 + 1, 0>>, <<2 * 4 + 2, -1>>,
                                      <<0 * 4 + 1, 1>>, <<1 * 4 + 0, 1>>})
          [] orientation = "ORIENT_ANTI_TRANSPOSED" ->
                Written(identityInt, {<<0 * 4 + 0, 0>>, <<1 * 4 + 1, 0>>, <<2 * 4 + 2, -1>>,
                                      <<0 * 4 + 1, -1>>, <<1 * 4 + 0, -1>>,
                                      <<3 * 4 + 0, 1>>, <<3 * 4 + 1, 1>>})
          [] OTHER -> identityInt

MultiviewModes ==
    {"MULTIVIEW_2D", "MULTIVIEW_STEREO_SBS", "MULTIVIEW_STEREO_TB", "MULTIVIEW_STEREO_ROW"}

\* a stereo matrix that halves both axes for either stereo layout
InitStereoMatrix_BothAxes(multiview_mode) ==
    LET zero == [i \in 1..9 |-> RInt(0)]
        id3 == Written(zero, {<<0 * 3 + 0, RInt(1)>>, <<1 * 3 + 1, RInt(1)>>,
                              <<2 * 3 + 2, RInt(1)>>})
        both == Written(id3, {<<0 * 3 + 0, Rat(1, 2)>>, <<1 * 3 + 1, Rat(1, 2)>>})
    IN  CASE multiview_mode = "MULTIVIEW_STEREO_SBS" -> both
          [] multiview_mode = "MULTIVIEW_STEREO_TB" -> both
          [] OTHER -> id3

\* COL(x) = x * 3, ROW(x) = x
InitStereoMatrix(multiview_mode) ==
    LET zero == [i \in 1..9 |-> RInt(0)]
        id3 == Written(zero, {<<0 * 3 + 0, RInt(1)>>, <<1 * 3 + 1, RInt(1)>>,
                              <<2 * 3 + 2, RInt(1)>>})
    IN  CASE multiview_mode = "MULTIVIEW_STEREO_SBS" -> Written(id3, {<<0 * 3 + 0, Rat(1, 2)>>})
          [] multiview_mode = "MULTIVIEW_STEREO_TB" -> Written(id3, {<<1 * 3 + 1, Rat(1, 2)>>})
          [] OTHER -> id3

(***************************************************************************)
(* renderer.c: BuildSphere.  The code fixes both band counts at 128; the   *)
(* builder is written over the band counts so that small spheres can be    *)
(* built as well.  An index slot no iteration writes holds -1.             *)
(***************************************************************************)
nbBands == 128

\* the sizes BuildSphere computes and the three allocations it makes
BuildSphereAlloc(nbLatBands, nbLonBands, alloc_fail) ==
    LET nbVertices == (nbLatBands + 1) * (nbLonBands + 1)
        nbIndices == nbLatBands * nbLonBands * 3 * 2
    IN  IF alloc_fail # 0 THEN AllocFailed(nbVertices, nbIndices, alloc_fail)
        ELSE [NoMesh EXCEPT !.ret = VLC_SUCCESS, !.nbVertices = nbVertices,
                            !.nbIndices = nbIndices, !.heap = BuilderHeap(alloc_fail)]

BuildSphere(nbLatBands, nbLonBands, alloc_fail) ==
    LET alloc == BuildSphereAlloc(nbLatBands, nbLonBands, alloc_fail)
        nbVertices == alloc.nbVertices
        nbIndices == alloc.nbIndices
        theta(lat) == <<"theta", ToString(lat), ToString(nbLatBands)>>
        phi(lon) == <<"phi", ToString(lon), ToString(nbLonBands)>>
        vertex(v, c) ==
            LET lat == v \div (nbLonBands + 1)
                lon == v % (nbLonBands + 1)
            IN  CASE c = 0 -> Mul(SPHERE_RADIUS, Mul(App1("cosf", phi(lon)), Sinf(theta(lat))))
                  [] c = 1 -> Mul(SPHERE_RADIUS, App1("cosf", theta(lat)))
                  [] c = 2 -> Mul(SPHERE_RADIUS, Mul(Sinf(phi(lon)), Sinf(theta(lat))))
        uv(v, c) ==
            LET lat == v \div (nbLonBands + 1)
                lon == v % (nbLonBands + 1)
            IN  IF c = 0 THEN Rat(lon, nbLonBands) ELSE Rat(lat, nbLatBands)
        first(lat, lon) == lat * (nbLonBands + 1) + lon
        second(lat, lon) == first(lat, lon) + nbLonBands + 1
        off(lat, lon) == (lat * nbLatBands + lon) * 3 * 2
        value(lat, lon, k) ==
            CASE k = 0 -> first(lat, lon)
              [] k = 1 -> second(lat, lon)
              [] k = 2 -> first(lat, lon) + 1
              [] k = 3 -> second(lat, lon)
              [] k = 4 -> second(lat, lon) + 1
              [] k = 5 -> first(lat, lon) + 1
        quads == (0..(nbLatBands - 1)) \X (0..(nbLonBands - 1))
        \* the iterations that write slot s, and the last of them in loop order
        writers(s) == {q \in quads : off(q[1], q[2]) <= s /\ s < off(q[1], q[2]) + 6}
        last(s) == CHOOSE q \in writers(s) :
                      \A p \in writers(s) : p[1] < q[1] \/ (p[1] = q[1] /\ p[2] <= q[2])
    IN  IF alloc.ret # VLC_SUCCESS THEN alloc
        ELSE [alloc EXCEPT
              !.vertexCoord = [i \in 1..(nbVertices * 3) |-> vertex((i - 1) \div 3, (i - 1) % 3)],
              !.textureCoord = [i \in 1..(nbVertices * 2) |-> uv((i - 1) \div 2, (i - 1) % 2)],
              !.indices = [s \in 1..nbIndices |->
                             IF writers(s - 1) = {} THEN -1
                             ELSE LET q == last(s - 1)
                                  IN  value(q[1], q[2], (s - 1) - off(q[1], q[2]))]]

\* an index loop whose offsets advance by the vertex stride nbLonBands + 1
SphereIndexWrites_VertexStride(nbLatBands, nbLonBands) ==
    LET first(lat, lon) == (lat * (nbLonBands + 1)) + lon
        second(lat, lon) == first(lat, lon) + nbLonBands + 1
        off(lat, lon) == (lat * (nbLonBands + 1) + lon) * 3 * 2
        value(lat, lon, k) ==
            CASE k = 0 -> first(lat, lon)
              [] k = 1 -> second(lat, lon)
              [] k = 2 -> first(lat, lon) + 1
              [] k = 3 -> second(lat, lon)
              [] k = 4 -> second(lat, lon) + 1
              [] k = 5 -> first(lat, lon) + 1
    IN  {<<lat, lon, k, off(lat, lon) + k, value(lat, lon, k)>> :
            lat \in 0..(nbLatBands - 1), lon \in 0..(nbLonBands - 1), k \in 0..5}

\* the second loop of BuildSphere: every store (*indices)[off + k] = value it
\* makes, as <<lat, lon, k, off + k, value>>
SphereIndexWrites(nbLatBands, nbLonBands) ==
    LET first(lat, lon) == (lat * (nbLonBands + 1)) + lon
        second(lat, lon) == first(lat, lon) + nbLonBands + 1
        off(lat, lon) == (lat * nbLatBands + lon) * 3 * 2
        value(lat, lon, k) ==
            CASE k = 0 -> first(lat, lon)
              [] k = 1 -> second(lat, lon)
              [] k = 2 -> first(lat, lon) + 1
              [] k = 3 -> second(lat, lon)
              [] k = 4 -> second(lat, lon) + 1
              [] k = 5 -> first(lat, lon) + 1
    IN  {<<lat, lon, k, off(lat, lon) + k, value(lat, lon, k)>> :
            lat \in 0..(nbLatBands - 1), lon \in 0..(nbLonBands - 1), k \in 0..5}

\* GLushort: an unsigned 16-bit integer
GLushortMax == 2^16 - 1

\* what the stores of the index loop come to, for the arrays BuildSphere allocated
SphereWritten(nbLatBands, nbLonBands) ==
    LET tally(alloc, stores) ==
            [nbWrites |-> Cardinality(stores),
             nbSlots |-> Cardinality({w[4] : w \in stores}),
             slotsInArray |-> \A w \in stores : 0 <= w[4] /\ w[4] < alloc.nbIndices,
             valuesAreVertices |-> \A w \in stores : 0 <= w[5] /\ w[5] < alloc.nbVertices,
             valuesAreUShort |-> \A w \in stores : 0 <= w[5] /\ w[5] <= GLushortMax]
    IN  tally(BuildSphereAlloc(nbLatBands, nbLonBands, 0),
              SphereIndexWrites(nbLatBands, nbLonBands))

(***************************************************************************)
(* The texture interop (interop.c, not among the sources): what            *)
(* vlc_gl_interop_New hands to the renderer for a format.  One texture     *)
(* per plane; texs[j] is the size of plane j relative to the picture.      *)
(***************************************************************************)
PlaneScales(chroma) ==
    LET full == [w |-> <<1, 1>>, h |-> <<1, 1>>]
        half == [w |-> <<1, 2>>, h |-> <<1, 2>>]
        quarter == [w |-> <<1, 4>>, h |-> <<1, 4>>]
    IN  CASE chroma \in {"VLC_CODEC_I420", "VLC_CODEC_YV12", "VLC_CODEC_I420_9L",
                         "VLC_CODEC_I420_10L", "VLC_CODEC_I420_12L", "VLC_CODEC_I420_16L"}
                -> <<full, half, half>>
          [] chroma = "VLC_CODEC_YV9" -> <<full, quarter, quarter>>
          [] chroma \in {"VLC_CODEC_NV12", "VLC_CODEC_NV21", "VLC_CODEC_P010", "VLC_CODEC_P016"}
                -> <<full, half>>
          [] chroma \in {"VLC_CODEC_UYVY", "VLC_CODEC_YUYV", "VLC_CODEC_VYUY", "VLC_CODEC_YVYU"}
                -> << [w |-> <<1, 2>>, h |-> <<1, 1>>] >>
          [] chroma = "VLC_CODEC_YUVA" -> <<full, full, full, full>>
          [] OTHER -> <<full>>

NoFormat ==
    [chroma |-> "UNKNOWN_FOURCC", space |-> "COLOR_SPACE_UNDEF",
     projection_mode |-> PROJECTION_MODE_RECTANGULAR, multiview_mode |-> "MULTIVIEW_2D",
     orientation |-> "ORIENT_NORMAL", i_width |-> 0, i_height |-> 0,
     i_visible_width |-> 0, i_visible_height |-> 0, i_cubemap_padding |-> 0]

NoInterop ==
    [fmt |-> NoFormat, sw_fmt |-> NoFormat, tex_count |-> 0, tex_target |-> GL_TEXTURE_2D,
     handle_texs_gen |-> FALSE, supports_npot |-> TRUE, texs |-> <<>>]

vlc_gl_interop_New(fmt, cfg) ==
    [fmt |-> fmt, sw_fmt |-> fmt,
     tex_count |-> vlc_fourcc_GetChromaDescription(fmt.chroma).plane_count,
     tex_target |-> cfg.tex_target,
     handle_texs_gen |-> cfg.handle_texs_gen,
     supports_npot |-> cfg.supports_npot,
     texs |-> PlaneScales(fmt.chroma)]

\* gl_util.h: the smallest power of two that is not below x
RECURSIVE PotFrom(_, _)
PotFrom(p, x) == IF p >= x THEN p ELSE PotFrom(2 * p, x)
vlc_align_pot(x) == PotFrom(1, x)

(***************************************************************************)
(* struct vlc_gl_renderer as calloc leaves it.                             *)
(***************************************************************************)
ZeroViewpoint == [yaw |-> 0, pitch |-> 0, roll |-> 0, fov |-> 0]
ZeroRegion == [i_x_offset |-> 0, i_y_offset |-> 0, i_visible_width |-> 0, i_visible_height |-> 0]
ZeroMap == [i \in 1..9 |-> RInt(0)]

ZeroRenderer ==
    [interop |-> NoInterop,
     fmt |-> NoFormat,
     program_id |-> 0,
     uloc |-> [n \in AllNames |-> 0],
     pf_fetch_locations |-> "NULL",
     pf_prepare_shader |-> "NULL",
     yuv_color |-> FALSE,
     conv_matrix |-> [i \in 1..16 |-> EntryZero],
     vp |-> ZeroViewpoint,
     f_fovx |-> 0,
     f_fovy |-> Zero,
     f_z |-> Zero,
     f_sar |-> 0,
     ProjectionMatrix |-> [i \in 1..16 |-> Zero],
     ZoomMatrix |-> [i \in 1..16 |-> Zero],
     ViewMatrix |-> [i \in 1..16 |-> Zero],
     OrientationMatrix |-> [i \in 1..16 |-> 0],
     StereoMatrix |-> ZeroMap,
     TexCoordsMap |-> [j \in 1..PICTURE_PLANE_MAX |-> ZeroMap],
     last_source |-> ZeroRegion,
     tex_width |-> [j \in 1..PICTURE_PLANE_MAX |-> 0],
     tex_height |-> [j \in 1..PICTURE_PLANE_MAX |-> 0],
     textures |-> [j \in 1..PICTURE_PLANE_MAX |-> 0],
     vertex_buffer_object |-> 0,
     index_buffer_object |-> 0,
     texture_buffer_object |-> 0,
     nb_indices |-> 0]

(***************************************************************************)
(* renderer.c: SetupCoords.  [ret, r, g, heap]: heap is what became of the  *)
(* arrays of the builder.                                                  *)
(***************************************************************************)
SetupCoords(r, g, alloc_fail) ==
    LET \* the mesh is uploaded to the three buffers and freed
        upload(mesh) ==
            IF mesh.ret # VLC_SUCCESS
            THEN [ret |-> mesh.ret, r |-> r, g |-> g, heap |-> mesh.heap]
            ELSE [ret |-> VLC_SUCCESS,
                  r |-> [r EXCEPT !.nb_indices = mesh.nbIndices],
                  g |-> [g EXCEPT !.buffer_data =
                            @ \cup {r.texture_buffer_object, r.vertex_buffer_object,
                                    r.index_buffer_object}],
                  heap |-> [mesh.heap EXCEPT !.freed =
                              @ \o << "textureCoord", "vertexCoord", "indices" >>]]
    IN  upload(CASE r.fmt.projection_mode = PROJECTION_MODE_RECTANGULAR ->
                      BuildRectangle(alloc_fail)
                 \* of the sphere the renderer keeps nbIndices only
                 [] r.fmt.projection_mode = PROJECTION_MODE_EQUIRECTANGULAR ->
                      BuildSphereAlloc(nbBands, nbBands, alloc_fail)
                 [] r.fmt.projection_mode = PROJECTION_MODE_CUBEMAP_LAYOUT_STANDARD ->
                      BuildCube(Rat(r.fmt.i_cubemap_padding, r.fmt.i_width),
                                Rat(r.fmt.i_cubemap_padding, r.fmt.i_height),
                                alloc_fail)
                 [] OTHER -> NoMesh)

(***************************************************************************)
(* renderer.c: vlc_gl_renderer_Delete.  The renderer is freed; the GL      *)
(* context is what remains.                                                *)
(***************************************************************************)
\* a Delete that leaves the textures to the interop in every case
vlc_gl_renderer_Delete_KeepTextures(r, g) ==
    LET g1 == GLDelete(g, "buffer", r.vertex_buffer_object)
        g2 == GLDelete(g1, "buffer", r.index_buffer_object)
        g3 == GLDelete(g2, "buffer", r.texture_buffer_object)
        g5 == [g3 EXCEPT !.interop = "deleted"]
    IN  IF r.program_id # 0 THEN DeleteProgram(g5, r.program_id) ELSE g5

vlc_gl_renderer_Delete(r, g) ==
    LET g1 == GLDelete(g, "buffer", r.vertex_buffer_object)
        g2 == GLDelete(g1, "buffer", r.index_buffer_object)
        g3 == GLDelete(g2, "buffer", r.texture_buffer_object)
        g4 == IF ~r.interop.handle_texs_gen
              THEN DeleteTextures(g3, r.interop.tex_count, r.textures)
              ELSE g3
        g5 == [g4 EXCEPT !.interop = "deleted"]
    IN  IF r.program_id # 0 THEN DeleteProgram(g5, r.program_id) ELSE g5

(***************************************************************************)
(* interop.c (not among the sources): vlc_gl_interop_GenerateTextures      *)
(* creates one texture per plane; when it fails it deletes what it created *)
(* and leaves the names 0.  [ret, textures, g]                             *)
(***************************************************************************)
RECURSIVE CreateTextures(_, _)
CreateTextures(g, n) ==
    IF n = 0 THEN g ELSE CreateTextures(GLCreate(g, "texture" \o ToString(n)), n - 1)

vlc_gl_interop_GenerateTextures(interop, g, ok) ==
    IF ok
    THEN [ret |-> VLC_SUCCESS,
          textures |-> [j \in 1..PICTURE_PLANE_MAX |-> IF j <= interop.tex_count THEN j ELSE 0],
          g |-> CreateTextures(g, interop.tex_count)]
    ELSE [ret |-> VLC_EGENERIC,
          textures |-> [j \in 1..PICTURE_PLANE_MAX |-> 0],
          g |-> g]

(***************************************************************************)
(* renderer.c: vlc_gl_renderer_New.  [ret, r, g]: ret is "renderer" when   *)
(* the renderer is returned, "NULL", or "abort"/"fault" when the process   *)
(* ended inside the call.  env.fault names the step the environment makes  *)
(* fail: "calloc", "interop", "build", "gen_textures", "alloc1".."alloc3", *)
(* or "none"; env.missing names a location the GL does not resolve.        *)
(***************************************************************************)
TexSizes(r, interop) ==
    LET w(j) == (r.fmt.i_visible_width * interop.texs[j].w[1]) \div interop.texs[j].w[2]
        h(j) == (r.fmt.i_visible_height * interop.texs[j].h[1]) \div interop.texs[j].h[2]
    IN  [r EXCEPT
          !.tex_width = [j \in 1..PICTURE_PLANE_MAX |->
                            IF j > interop.tex_count THEN 0
                            ELSE IF interop.supports_npot THEN w(j) ELSE vlc_align_pot(w(j))],
          !.tex_height = [j \in 1..PICTURE_PLANE_MAX |->
                            IF j > interop.tex_count THEN 0
                            ELSE IF interop.supports_npot THEN h(j) ELSE vlc_align_pot(h(j))]]

AllocFault(env) ==
    CASE env.fault = "alloc1" -> 1
      [] env.fault = "alloc2" -> 2
      [] env.fault = "alloc3" -> 3
      [] OTHER -> 0

vlc_gl_renderer_New(g, fmt, cfg, build, env) ==
    LET interop == vlc_gl_interop_New(fmt, cfg)
        null(rr, gg) == [ret |-> "NULL", r |-> ZeroRenderer,
                         g |-> vlc_gl_renderer_Delete(rr, gg)]
        \* after vlc_gl_interop_GenerateTextures: the buffers and the coordinates
        buffers(r4, gen) ==
            LET r5 == [r4 EXCEPT !.textures = gen.textures]
                \* vt->GenBuffers, three times
                g6 == GLCreate(GLCreate(GLCreate(gen.g, "buffer1"), "buffer2"), "buffer3")
                r6 == [r5 EXCEPT !.vertex_buffer_object = 1,
                                 !.index_buffer_object = 2,
                                 !.texture_buffer_object = 3]
                coords(setup) ==
                    IF setup.ret # VLC_SUCCESS THEN null(setup.r, setup.g)
                    ELSE [ret |-> "renderer", r |-> setup.r, g |-> setup.g]
            IN  IF gen.ret # VLC_SUCCESS THEN null(r5, gen.g)
                ELSE coords(SetupCoords(r6, g6, AllocFault(env)))
        \* after opengl_link_program: the matrices, the texture sizes, the textures
        textures(r4, gg) ==
            IF ~interop.handle_texs_gen
            THEN buffers(r4, vlc_gl_interop_GenerateTextures(interop, gg,
                                                             env.fault # "gen_textures"))
            ELSE buffers(r4, [ret |-> VLC_SUCCESS, textures |-> r4.textures, g |-> gg])
        linked(link) ==
            LET r1 == [link.r EXCEPT
                         !.StereoMatrix = InitStereoMatrix(interop.fmt.multiview_mode),
                         !.OrientationMatrix =
                             getOrientationTransformMatrix(interop.fmt.orientation)]
                r2 == getViewpointMatrixes(r1, interop.fmt.projection_mode)
                r3 == [r2 EXCEPT !.fmt = [interop.fmt EXCEPT !.orientation = fmt.orientation]]
            IN  IF link.ret \in {"abort", "fault"}
                THEN [ret |-> link.ret, r |-> link.r, g |-> link.g]
                ELSE IF link.ret # VLC_SUCCESS THEN null(link.r, link.g)
                ELSE textures(TexSizes(r3, interop), link.g)
    IN  IF env.fault = "calloc" THEN [ret |-> "NULL", r |-> ZeroRenderer, g |-> g]
        ELSE IF env.fault = "interop" THEN [ret |-> "NULL", r |-> ZeroRenderer, g |-> g]
        ELSE linked(opengl_link_program([ZeroRenderer EXCEPT !.interop = interop],
                                        [g EXCEPT !.interop = "live"], build, env))

(***************************************************************************)
(* renderer.c: the calls on a live renderer.                               *)
(***************************************************************************)
\* [ret, r]
\* a SetViewpoint that rejects the two bounds as well
vlc_gl_renderer_SetViewpoint_Open(r, p_vp) ==
    IF p_vp.fov >= FIELD_OF_VIEW_DEGREES_MAX \/ p_vp.fov <= FIELD_OF_VIEW_DEGREES_MIN
    THEN [ret |-> VLC_EBADVAR, r |-> r]
    ELSE LET r1 == [r EXCEPT !.vp = vlc_viewpoint_reverse(p_vp)]
             r2 == IF Abs(p_vp.fov - r1.f_fovx) >= FovChangeThreshold
                   THEN UpdateZ(UpdateFOVy([r1 EXCEPT !.f_fovx = p_vp.fov]))
                   ELSE r1
         IN  [ret |-> VLC_SUCCESS, r |-> getViewpointMatrixes(r2, r2.fmt.projection_mode)]

\* a SetViewpoint that stores the viewpoint before it tests the fov
vlc_gl_renderer_SetViewpoint_StoreFirst(r, p_vp) ==
    LET r1 == [r EXCEPT !.vp = vlc_viewpoint_reverse(p_vp)]
    IN  IF p_vp.fov > FIELD_OF_VIEW_DEGREES_MAX \/ p_vp.fov < FIELD_OF_VIEW_DEGREES_MIN
        THEN [ret |-> VLC_EBADVAR, r |-> r1]
        ELSE LET f_fovx == p_vp.fov
                 r2 == IF Abs(f_fovx - r1.f_fovx) >= FovChangeThreshold
                       THEN UpdateZ(UpdateFOVy([r1 EXCEPT !.f_fovx = f_fovx]))
                       ELSE r1
             IN  [ret |-> VLC_SUCCESS, r |-> getViewpointMatrixes(r2, r2.fmt.projection_mode)]

vlc_gl_renderer_SetViewpoint(r, p_vp) ==
    IF p_vp.fov > FIELD_OF_VIEW_DEGREES_MAX \/ p_vp.fov < FIELD_OF_VIEW_DEGREES_MIN
    THEN [ret |-> VLC_EBADVAR, r |-> r]
    ELSE LET f_fovx == p_vp.fov
             r1 == [r EXCEPT !.vp = vlc_viewpoint_reverse(p_vp)]
             r2 == IF Abs(f_fovx - r1.f_fovx) >= FovChangeThreshold
                   THEN UpdateZ(UpdateFOVy([r1 EXCEPT !.f_fovx = f_fovx]))
                   ELSE r1
         IN  [ret |-> VLC_SUCCESS, r |-> getViewpointMatrixes(r2, r2.fmt.projection_mode)]

\* a SetWindowAspectRatio that leaves the camera distance as it was
vlc_gl_renderer_SetWindowAspectRatio_StaleZ(r, f_sar) ==
    LET r1 == UpdateFOVy([r EXCEPT !.f_sar = f_sar])
    IN  getViewpointMatrixes(r1, r1.fmt.projection_mode)

vlc_gl_renderer_SetWindowAspectRatio(r, f_sar) ==
    LET r1 == UpdateZ(UpdateFOVy([r EXCEPT !.f_sar = f_sar]))
    IN  getViewpointMatrixes(r1, r1.fmt.projection_mode)

\* the crop-to-texture matrix of texture unit j (from 1) for a visible region
CropMatrix(r, j, source) ==
    LET interop == r.interop
        scale_w == RDiv(Rat(interop.texs[j].w[1], interop.texs[j].w[2]), RInt(r.tex_width[j]))
        scale_h == RDiv(Rat(interop.texs[j].h[1], interop.texs[j].h[2]), RInt(r.tex_height[j]))
        left == RMul(RInt(source.i_x_offset), scale_w)
        top == RMul(RInt(source.i_y_offset), scale_h)
        right == RMul(RInt(source.i_x_offset + source.i_visible_width), scale_w)
        bottom == RMul(RInt(source.i_y_offset + source.i_visible_height), scale_h)
    IN  Written(ZeroMap, {<<0 * 3 + 0, RSub(right, left)>>, <<1 * 3 + 1, RSub(bottom, top)>>,
                          <<2 * 3 + 0, left>>, <<2 * 3 + 1, top>>})

Region(source) ==
    [i_x_offset |-> source.i_x_offset, i_y_offset |-> source.i_y_offset,
     i_visible_width |-> source.i_visible_width,
     i_visible_height |-> source.i_visible_height]

\* a comparison that asks for all four fields to differ
RegionChanged_AllFour(r, source) ==
    /\ source.i_x_offset # r.last_source.i_x_offset
    /\ source.i_y_offset # r.last_source.i_y_offset
    /\ source.i_visible_width # r.last_source.i_visible_width
    /\ source.i_visible_height # r.last_source.i_visible_height

RegionChanged(r, source) ==
    \/ source.i_x_offset # r.last_source.i_x_offset
    \/ source.i_y_offset # r.last_source.i_y_offset
    \/ source.i_visible_width # r.last_source.i_visible_width
    \/ source.i_visible_height # r.last_source.i_visible_height

\* [ret, r, recomputed]; update_ok is what interop->ops->update_textures answers
vlc_gl_renderer_Prepare(r, source, update_ok) ==
    LET changed == RegionChanged(r, source)
        r1 == IF changed
              THEN [r EXCEPT !.TexCoordsMap =
                                 [j \in 1..PICTURE_PLANE_MAX |->
                                     IF j <= r.interop.tex_count
                                     THEN CropMatrix(r, j, source) ELSE ZeroMap],
                             !.last_source = Region(source)]
              ELSE r
    IN  [ret |-> IF update_ok THEN VLC_SUCCESS ELSE VLC_EGENERIC,
         r |-> r1, recomputed |-> changed]

\* DrawWithShaders: the uniforms uploaded and the one draw call
DrawWithShaders(r, g) ==
    LET family == IF r.pf_prepare_shader = "renderer_xyz12_prepare_shader"
                  THEN {"Texture0"}
                  ELSE (IF r.yuv_color THEN {"ConvMatrix"} ELSE {})
                       \cup {"Texture" \o ToString(j - 1) : j \in 1..r.interop.tex_count}
                       \cup {"FillColor"}
                       \cup (IF r.interop.tex_target = GL_TEXTURE_RECTANGLE
                             THEN {"TexSize" \o ToString(j - 1) : j \in 1..r.interop.tex_count}
                             ELSE {})
        maps == {"TexCoordsMap" \o ToString(j - 1) : j \in 1..r.interop.tex_count}
        core == {"TransformMatrix", "OrientationMatrix", "StereoMatrix",
                 "ProjectionMatrix", "ViewMatrix", "ZoomMatrix"}
    IN  [g EXCEPT !.draws = Append(@, [call |-> "DrawElements", mode |-> "GL_TRIANGLES",
                                       count |-> r.nb_indices,
                                       type |-> "GL_UNSIGNED_SHORT",
                                       uniforms |-> family \cup maps \cup core])]

\* [ret, g]: Clear, UseProgram, DrawWithShaders
vlc_gl_renderer_Draw(r, g) ==
    [ret |-> VLC_SUCCESS, g |-> DrawWithShaders(r, [g EXCEPT !.draws = <<>>])]

(***************************************************************************)
(* Inputs.                                                                 *)
(***************************************************************************)
Fmt(chroma, space, projection_mode, multiview_mode, orientation, padding) ==
    [chroma |-> chroma, space |-> space, projection_mode |-> projection_mode,
     multiview_mode |-> multiview_mode, orientation |-> orientation,
     i_width |-> 12, i_height |-> 8, i_visible_width |-> 12, i_visible_height |-> 8,
     i_cubemap_padding |-> padding]

Cfg(tex_target, handle_texs_gen, supports_npot) ==
    [tex_target |-> tex_target, handle_texs_gen |-> handle_texs_gen,
     supports_npot |-> supports_npot]

NoSetup == [fmt |-> NoFormat, cfg |-> Cfg(GL_TEXTURE_2D, FALSE, TRUE)]

\* the formats a renderer is created for, each with what the interop says
Setups ==
    { [fmt |-> Fmt("VLC_CODEC_I420", "COLOR_SPACE_BT709", PROJECTION_MODE_RECTANGULAR,
                   "MULTIVIEW_2D", "ORIENT_NORMAL", 0),
       cfg |-> Cfg(GL_TEXTURE_2D, FALSE, TRUE)],
      [fmt |-> Fmt("VLC_CODEC_I420_10L", "COLOR_SPACE_BT2020", PROJECTION_MODE_EQUIRECTANGULAR,
                   "MULTIVIEW_STEREO_SBS", "ORIENT_ROTATED_180", 0),
       cfg |-> Cfg(GL_TEXTURE_2D, FALSE, FALSE)],
      [fmt |-> Fmt("VLC_CODEC_NV21", "COLOR_SPACE_BT601", PROJECTION_MODE_CUBEMAP_LAYOUT_STANDARD,
                   "MULTIVIEW_STEREO_TB", "ORIENT_HFLIPPED", 1),
       cfg |-> Cfg(GL_TEXTURE_EXTERNAL_OES, TRUE, TRUE)],
      [fmt |-> Fmt("VLC_CODEC_UYVY", "COLOR_SPACE_UNDEF", PROJECTION_MODE_RECTANGULAR,
                   "MULTIVIEW_2D", "ORIENT_ROTATED_90", 0),
       cfg |-> Cfg(GL_TEXTURE_RECTANGLE, FALSE, TRUE)],
      [fmt |-> Fmt("VLC_CODEC_RGBA", "COLOR_SPACE_UNDEF", PROJECTION_MODE_EQUIRECTANGULAR,
                   "MULTIVIEW_2D", "ORIENT_NORMAL", 0),
       cfg |-> Cfg(GL_TEXTURE_2D, FALSE, TRUE)],
      [fmt |-> Fmt("VLC_CODEC_XYZ12", "COLOR_SPACE_UNDEF", PROJECTION_MODE_RECTANGULAR,
                   "MULTIVIEW_2D", "ORIENT_NORMAL", 0),
       cfg |-> Cfg(GL_TEXTURE_2D, FALSE, FALSE)],
      [fmt |-> Fmt("VLC_CODEC_Y211", "COLOR_SPACE_BT601", PROJECTION_MODE_RECTANGULAR,
                   "MULTIVIEW_2D", "ORIENT_NORMAL", 0),
       cfg |-> Cfg(GL_TEXTURE_2D, FALSE, TRUE)] }

Build(ndebug, pl_sh, texture_rg, ub) ==
    [NDEBUG |-> ndebug, pl_sh |-> pl_sh, texture_rg |-> texture_rg, ub |-> ub]

NoBuild == Build(TRUE, FALSE, TRUE, "fault")

\* every way of building the tree
AllBuilds ==
    {Build(n, p, t, u) : n \in BOOLEAN, p \in BOOLEAN, t \in BOOLEAN, u \in {"fault", "garbage"}}

\* the builds renderers are created under
Builds ==
    {Build(FALSE, FALSE, TRUE, "fault"), Build(TRUE, FALSE, TRUE, "fault")}

NoEnv == [fault |-> "none", missing |-> "none"]

Faults == {"none", "calloc", "interop", "build", "gen_textures", "alloc1", "alloc2", "alloc3"}

Envs ==
    {[fault |-> f, missing |-> "none"] : f \in Faults}
    \cup {[fault |-> "none", missing |-> n] : n \in AllNames}

FovValues == {1500, 2000, 2003, 8000, 12000, 15000, 15001}
Viewpoints ==
    {[yaw |-> 0, pitch |-> 0, roll |-> 0, fov |-> f] : f \in FovValues}
    \cup {[yaw |-> 4500, pitch |-> -3000, roll |-> 1000, fov |-> 8000]}

\* window aspect ratios, in hundredths
SarValues == {100, 178}

\* visible regions of the pictures handed to Prepare
Pictures ==
    { ZeroRegion,
      [i_x_offset |-> 0, i_y_offset |-> 0, i_visible_width |-> 12, i_visible_height |-> 8],
      [i_x_offset |-> 2, i_y_offset |-> 2, i_visible_width |-> 8, i_visible_height |-> 4] }

NoShader == [ret |-> "none", text |-> <<>>, color_count |-> 0, assert_failed |-> "none"]

NoCall ==
    [op |-> "none", ret |-> "none", vp |-> ZeroViewpoint, sar |-> 0,
     source |-> ZeroRegion, recomputed |-> FALSE,
     setup |-> NoSetup, build |-> NoBuild, env |-> NoEnv, shader |-> NoShader]

NoConv ==
    [op |-> "none", chroma |-> "UNKNOWN_FOURCC", space |-> "COLOR_SPACE_UNDEF",
     range |-> "COLOR_RANGE_UNDEF", matrix |-> ZeroRenderer.conv_matrix,
     orig |-> ZeroRenderer.conv_matrix, swaps |-> 0,
     fmt_range |-> "COLOR_RANGE_UNDEF"]

\* what the index loop of a sphere did: the writes it made, the distinct slots
\* it wrote, and whether slots and values stayed within their arrays and types
NoWrites ==
    [nbWrites |-> 0, nbSlots |-> 0, slotsInArray |-> TRUE, valuesAreVertices |-> TRUE,
     valuesAreUShort |-> TRUE]

NoGeom ==
    [op |-> "none", padW |-> RInt(0), padH |-> RInt(0), alloc_fail |-> 0, mesh |-> NoMesh,
     nbLatBands |-> 0, nbLonBands |-> 0, writes |-> NoWrites,
     setups |-> 0, ret |-> VLC_SUCCESS, heap |-> NoHeap]

\* no orientation applied yet (the product is the identity), no stereo matrix built
NoMat == [orient |-> <<>>, matrix |-> identityInt, multiview_mode |-> "none", stereo |-> ZeroMap]

\* a call history in short: the last accepted viewpoint, the last aspect ratio,
\* and the last accepted fov that was at least FovChangeThreshold away from the
\* one kept before it (0 as long as there is none)
NoHistory == [vp |-> ZeroViewpoint, sar |-> 0, fov |-> 0]

NoTwin == [pc |-> "none", renderer |-> ZeroRenderer, first |-> NoHistory, second |-> NoHistory]

(***************************************************************************)
(* rav1e.c: OpenEncoder.  opt holds the values var_InheritInteger returns  *)
(* for the module's options; fault names the step the environment makes    *)
(* fail ("none": no step).  The configuration is the list of the keys set, *)
(* each with its value.                                                    *)
(***************************************************************************)
VLC_CODEC_AV1 == "VLC_CODEC_AV1"

\* the ranges change_integer_range gives the two tile options
TileOptionMax == 6
BitDepths == {8, 10}

\* x << n on an int; with n at most TileOptionMax no bit leaves the int
ShiftLeft(x, n) == x * 2^n

NoEncoder ==
    [ret |-> "none", p_sys |-> "none", ra_config |-> << >>, ra_context |-> FALSE,
     fmt_in_codec |-> "none", pf_encode_video |-> "NULL"]

OpenEncoder(fmt_out_codec, video, opt, fault) ==
    LET i_tile_rows == ShiftLeft(2, opt.tile_rows)
        i_tile_columns == ShiftLeft(2, opt.tile_columns)
        keys == << <<"height", video.i_visible_height>>, <<"width", video.i_visible_width>>,
                   <<"time_base", <<video.i_frame_rate_base, video.i_frame_rate>> >>,
                   <<"tile_rows", i_tile_rows>>, <<"tile_cols", i_tile_columns>> >>
        steps == << "height", "width", "timebase", "tile_rows", "tile_cols" >>
        failed == {i \in 1..Len(steps) : steps[i] = fault}
        clean == [NoEncoder EXCEPT !.ret = VLC_EGENERIC, !.p_sys = "freed"]
    IN  IF fmt_out_codec # VLC_CODEC_AV1 THEN [NoEncoder EXCEPT !.ret = VLC_EGENERIC]
        ELSE IF fault = "malloc" THEN [NoEncoder EXCEPT !.ret = VLC_ENOMEM]
        ELSE IF fault = "config_default" THEN clean
        ELSE IF failed # {} THEN clean
        ELSE IF fault = "context"
        THEN [clean EXCEPT !.fmt_in_codec = IF opt.bitdepth = 8 THEN "VLC_CODEC_I420"
                                            ELSE "VLC_CODEC_I420_10L"]
        ELSE [ret |-> VLC_SUCCESS, p_sys |-> "allocated", ra_config |-> keys,
              ra_context |-> TRUE,
              fmt_in_codec |-> IF opt.bitdepth = 8 THEN "VLC_CODEC_I420"
                               ELSE "VLC_CODEC_I420_10L",
              pf_encode_video |-> "Encode"]

NoEnc ==
    [op |-> "none", fmt_out_codec |-> "none",
     opt |-> [tile_rows |-> 0, tile_columns |-> 0, bitdepth |-> 8],
     fault |-> "none", encoder |-> NoEncoder]

(***************************************************************************)
(* listenbrainz.c.  A string is a sequence: << >> is NULL or empty,        *)
(* << x >> is the text x and << "enc", x >> is x percent-encoded by        *)
(* vlc_uri_encode; the texts of the items hold no percent sign, so that    *)
(* to decode one that is not encoded leaves it as it is.                   *)
(* A media item is what the input_item_Get* calls return for it.           *)
(***************************************************************************)
vlc_uri_encode(str) == << "enc" >> \o str
vlc_uri_decode(str) == IF str # << >> /\ str[1] = "enc" THEN Tail(str) ELSE str
EMPTY_STR(str) == str = << >>

\* vlc_tick.h: whole seconds of a time in ticks, a tick being a microsecond
TicksPerSec == 1000000
SEC_FROM_VLC_TICK(ticks) == ticks \div TicksPerSec

\* enum vlc_player_state, in the order of its declaration
PlayerStates == << "STOPPED", "STARTED", "PLAYING", "PAUSED", "STOPPING" >>
StateRank(state) == CHOOSE i \in 1..Len(PlayerStates) : PlayerStates[i] = state

NoItem ==
    [id |-> "none", Artist |-> << >>, Title |-> << >>, Album |-> << >>, TrackID |-> << >>,
     TrackNum |-> << >>, Duration |-> 0]

\* a listen_t as calloc or memset leaves it
NoSong ==
    [psz_artist |-> << >>, psz_title |-> << >>, psz_album |-> << >>,
     psz_track_number |-> << >>, i_length |-> 0, psz_musicbrainz_id |-> << >>, date |-> 0]

\* time(): the model has one date
Now == 1

\* intf_sys_t as calloc leaves it
NoSys ==
    [p_queue |-> << >>, p_current_song |-> NoSong, b_meta_read |-> FALSE,
     i_played_time |-> 0, playlist_listener |-> FALSE, player_listener |-> FALSE,
     timer_listener |-> FALSE, payload |-> << >>, request |-> << >>]

DeleteSong(p_song) ==
    [p_song EXCEPT !.psz_artist = << >>, !.psz_album = << >>, !.psz_title = << >>,
                   !.psz_musicbrainz_id = << >>, !.psz_track_number = << >>, !.date = 0]

\* RETRIEVE_METADATA(a, b): a is assigned only when the item has a text for b
RETRIEVE_METADATA(a, psz_data) == IF psz_data # << >> THEN vlc_uri_encode(psz_data) ELSE a

ReadMetaData(sys, item) ==
    IF item.id = "none" THEN sys
    ELSE
      LET s0 == [sys.p_current_song EXCEPT !.date = Now]
          s1 == [s0 EXCEPT !.psz_artist = RETRIEVE_METADATA(@, item.Artist)]
          skip1 == s1.psz_artist = << >>
          s2 == IF skip1 THEN DeleteSong(s1) ELSE s1
          s3 == [s2 EXCEPT !.psz_title = RETRIEVE_METADATA(@, item.Title)]
          skip2 == skip1 \/ s3.psz_title = << >>
          s4 == IF skip2 THEN DeleteSong(s3) ELSE s3
          s5 == IF skip2 THEN s4
                ELSE [s4 EXCEPT
                        !.psz_album = RETRIEVE_METADATA(@, item.Album),
                        !.psz_musicbrainz_id = RETRIEVE_METADATA(@, item.TrackID),
                        !.psz_track_number = RETRIEVE_METADATA(@, item.TrackNum),
                        !.i_length = SEC_FROM_VLC_TICK(item.Duration)]
      IN  [sys EXCEPT !.b_meta_read = TRUE, !.p_current_song = s5]

\* the copy is zeroed and takes the five strings and the date, not i_length
CopySong(song) ==
    [NoSong EXCEPT !.psz_title = song.psz_title, !.psz_artist = song.psz_artist,
                   !.psz_album = song.psz_album,
                   !.psz_musicbrainz_id = song.psz_musicbrainz_id,
                   !.psz_track_number = song.psz_track_number, !.date = song.date]

\* the longest queue vlc_vector_push can grow
MaxQueue == 2
vlc_vector_push(vec, item) ==
    IF Len(vec) < MaxQueue THEN [b_success |-> TRUE, vec |-> Append(vec, item)]
    ELSE [b_success |-> FALSE, vec |-> vec]

Enqueue(sys) ==
    LET song == sys.p_current_song
        b_skip1 == song.psz_artist = << >> \/ song.psz_title = << >>
        song1 == IF song.i_length = 0 THEN [song EXCEPT !.i_length = sys.i_played_time]
                 ELSE song
        b_skip == b_skip1 \/ sys.i_played_time < 30
        pushed == IF b_skip THEN sys.p_queue
                  ELSE vlc_vector_push(sys.p_queue, CopySong(song1)).vec
    IN  [sys EXCEPT !.p_queue = pushed, !.p_current_song = DeleteSong(song1),
                    !.b_meta_read = FALSE]

\* video: vlc_player_GetVideoTrackCount is not 0; item: the current media
PlayerStateChanged(sys, state, video, item) ==
    IF video THEN sys
    ELSE IF ~sys.b_meta_read /\ StateRank(state) >= StateRank("PLAYING")
    THEN ReadMetaData(sys, item)
    ELSE IF state = "STOPPED" THEN Enqueue(sys)
    ELSE sys

\* ts: value->ts - VLC_TICK_0
UpdateState(sys, ts) == [sys EXCEPT !.i_played_time = SEC_FROM_VLC_TICK(ts)]

PlaylistItemChanged(sys, index, video, item, preparsed) ==
    LET sys1 == IF index > 0 THEN Enqueue(sys) ELSE sys
        sys2 == [sys1 EXCEPT !.b_meta_read = FALSE]
    IN  IF item.id = "none" \/ video THEN sys2
        ELSE LET sys3 == [sys2 EXCEPT !.i_played_time = 0]
             IN  IF preparsed THEN ReadMetaData(sys3, item) ELSE sys3

(***************************************************************************)
(* listenbrainz.c: the submission thread.  The payload is the sequence of  *)
(* the JSON tokens the printf calls emit: << "open", b >> and              *)
(* << "close", b >> for a bracket, << "comma" >>, << "key", k >> for a key *)
(* whose value follows, and << "member", k >> \o text for a key with its   *)
(* value.                                                                  *)
(***************************************************************************)
\* the queue after vlc_uri_decode was applied in place by the printf arguments
DecodedSong(p_song) ==
    [p_song EXCEPT !.psz_artist = vlc_uri_decode(@),
                   !.psz_title = vlc_uri_decode(@),
                   !.psz_album = IF EMPTY_STR(@) THEN @ ELSE vlc_uri_decode(@),
                   !.psz_musicbrainz_id = IF EMPTY_STR(@) THEN @ ELSE vlc_uri_decode(@)]

\* what the body of the loop prints for one listen, p_song being decoded
SongTokens(p_song) ==
    << <<"open", "{">>, <<"member", "listened_at", ToString(p_song.date)>> >>
    \o << <<"comma">>, <<"key", "track_metadata">>, <<"open", "{">>,
          <<"member", "artist_name">> \o p_song.psz_artist, <<"comma">> >>
    \o << <<"member", "track_name">> \o p_song.psz_title, <<"comma">> >>
    \o (IF ~EMPTY_STR(p_song.psz_album)
        THEN << <<"member", "release_name">> \o p_song.psz_album >> ELSE << >>)
    \o (IF ~EMPTY_STR(p_song.psz_musicbrainz_id)
        THEN << <<"comma">>, <<"key", "additional_info">>, <<"open", "{">>,
                <<"member", "recording_mbid">> \o p_song.psz_musicbrainz_id,
                <<"close", "}">> >>
        ELSE << >>)
    \o << <<"close", "}">>, <<"close", "}">> >>

RECURSIVE QueueTokens(_, _)
QueueTokens(queue, i_song) ==
    IF i_song > Len(queue) THEN << >>
    ELSE SongTokens(queue[i_song]) \o QueueTokens(queue, i_song + 1)

\* [i_status, sys]; mem_ok: vlc_memstream_close succeeds
PreparePayload(sys, mem_ok) ==
    LET queue == [i \in 1..Len(sys.p_queue) |-> DecodedSong(sys.p_queue[i])]
        payload ==
            << <<"open", "{">>,
               <<"member", "listen_type", IF Len(sys.p_queue) = 1 THEN "single" ELSE "import">>,
               <<"comma">>, <<"key", "payload">>, <<"open", "[">> >>
            \o QueueTokens(queue, 1)
            \o << <<"close", "]">>, <<"close", "}">> >>
    IN  [i_status |-> IF mem_ok THEN 0 ELSE 1,
         sys |-> [sys EXCEPT !.p_queue = queue,
                             !.payload = IF mem_ok THEN payload ELSE @]]

\* the request is the header with the length of the payload, and the payload;
\* the payload is freed
PrepareRequest(sys, mem_ok) ==
    LET request == << <<"POST", "/1/submit-listens">>, <<"Connection", "close">>,
                      <<"Content-Length", ToString(Len(sys.payload))>> >> \o sys.payload
    IN  [i_status |-> IF mem_ok THEN 0 ELSE 1,
         sys |-> [sys EXCEPT !.payload = << >>,
                             !.request = IF mem_ok THEN request ELSE @]]

\* what can become of a request: no socket, a failed write, no response, a
\* response without OK, a response with OK
Outcomes == {"no_socket", "write_error", "no_response", "not_OK", "OK"}

\* a SendRequest that clears the queue whatever the server answered
SendRequest_ClearOnAnswer(sys, outcome) ==
    [ret |-> IF outcome = "OK" THEN 0 ELSE 1,
     sys |-> [sys EXCEPT !.request = << >>,
                         !.p_queue = IF outcome \in {"OK", "not_OK"} THEN << >> ELSE @]]

SendRequest(sys, outcome) ==
    [ret |-> IF outcome = "OK" THEN 0 ELSE 1,
     sys |-> [sys EXCEPT !.request = << >>,
                         !.p_queue = IF outcome = "OK" THEN << >> ELSE @]]

\* the number of listens of a payload or of a request
Listens(tokens) ==
    Cardinality({i \in 1..Len(tokens) : tokens[i][1] = "member" /\ tokens[i][2] = "listened_at"})

(***************************************************************************)
(* listenbrainz.c: Open.  fault names the step that fails; the result is   *)
(* the return code, p_sys (or "freed"), the listeners registered with the  *)
(* playlist and the player, and whether the thread was started.            *)
(***************************************************************************)
OpenFaults ==
    {"none", "calloc", "user_token", "submission_url", "playlist_listener",
     "player_listener", "timer_listener", "vlc_clone"}

Open(fault) ==
    LET failed(ret) == [ret |-> ret, sys |-> NoSys, registered |-> {}, thread |-> FALSE]
        sys == [NoSys EXCEPT
                  !.playlist_listener = fault # "playlist_listener",
                  !.player_listener = fault \notin {"playlist_listener", "player_listener"},
                  !.timer_listener = fault \notin {"playlist_listener", "player_listener",
                                                   "timer_listener"}]
    IN  IF fault = "calloc" THEN failed(VLC_ENOMEM)
        ELSE IF fault \in {"user_token", "submission_url"} THEN failed(VLC_EGENERIC)
        \* whatever was added is removed again
        ELSE IF fault # "none" THEN failed(VLC_EGENERIC)
        ELSE [ret |-> VLC_SUCCESS, sys |-> sys,
              registered |-> {"playlist", "player", "timer"}, thread |-> TRUE]

\* the submission thread: where it is in Run, b_wait, whether the iteration
\* under way began with the wait of 60 seconds, how the attempt before it
\* ended, and the length of the queue when a vlc_vector_clear began
NoThread ==
    [pc |-> "none", b_wait |-> FALSE, waited |-> FALSE, last |-> "none", clearing |-> 0]

\* the plugin: state is "none", "failed", "open", then "clearing" and
\* "removing" inside Close, and "closed"; registered are the listeners the
\* playlist and the player hold; media is the id of the item the player
\* holds and listened the items of which the timer has reported 30 seconds or
\* more since the item last began to play; corrupt and uaf tell that a data race on the
\* queue or a use of the freed state happened
NoLb ==
    [state |-> "none", ret |-> "none", sys |-> NoSys, registered |-> {},
     thread |-> NoThread, media |-> "none", listened |-> {},
     corrupt |-> FALSE, uaf |-> FALSE]

(***************************************************************************)
(* The renderer, from vlc_gl_renderer_New to vlc_gl_renderer_Delete.       *)
(***************************************************************************)
Init ==
    /\ pc = "none"
    /\ renderer = ZeroRenderer
    /\ gl = GLInit
    /\ call = NoCall
    /\ conv = NoConv
    /\ geom = NoGeom
    /\ mat = NoMat
    /\ twin = NoTwin
    /\ enc = NoEnc
    /\ lb = NoLb

New ==
    /\ pc = "none"
    /\ \E setup \in Setups, build \in Builds, env \in Envs :
         \E new \in {vlc_gl_renderer_New(gl, setup.fmt, setup.cfg, build, env)} :
             /\ pc' = CASE new.ret = "renderer" -> "live"
                        [] new.ret = "NULL" -> "null"
                        [] OTHER -> new.ret
             /\ renderer' = new.r
             /\ gl' = new.g
             /\ call' = [NoCall EXCEPT !.op = "New", !.ret = new.ret, !.setup = setup,
                                       !.build = build, !.env = env]
    /\ UNCHANGED <<conv, geom, mat, twin, enc, lb>>

SetViewpoint ==
    /\ pc = "live"
    /\ \E p_vp \in Viewpoints :
         LET res == vlc_gl_renderer_SetViewpoint(renderer, p_vp)
         IN  /\ renderer' = res.r
             /\ call' = [NoCall EXCEPT !.op = "SetViewpoint", !.ret = res.ret, !.vp = p_vp]
    /\ UNCHANGED <<pc, gl, conv, geom, mat, twin, enc, lb>>

SetWindowAspectRatio ==
    /\ pc = "live"
    /\ \E f_sar \in SarValues :
         /\ renderer' = vlc_gl_renderer_SetWindowAspectRatio(renderer, f_sar)
         /\ call' = [NoCall EXCEPT !.op = "SetWindowAspectRatio", !.ret = "void", !.sar = f_sar]
    /\ UNCHANGED <<pc, gl, conv, geom, mat, twin, enc, lb>>

Prepare ==
    /\ pc = "live"
    /\ \E source \in Pictures, update_ok \in BOOLEAN :
         LET res == vlc_gl_renderer_Prepare(renderer, source, update_ok)
         IN  /\ renderer' = res.r
             /\ call' = [NoCall EXCEPT !.op = "Prepare", !.ret = res.ret, !.source = source,
                                       !.recomputed = res.recomputed]
    /\ UNCHANGED <<pc, gl, conv, geom, mat, twin, enc, lb>>

Draw ==
    /\ pc = "live"
    /\ LET res == vlc_gl_renderer_Draw(renderer, gl)
       IN  /\ gl' = res.g
           /\ call' = [NoCall EXCEPT !.op = "Draw", !.ret = res.ret]
    /\ UNCHANGED <<pc, renderer, conv, geom, mat, twin, enc, lb>>

Delete ==
    /\ pc = "live"
    /\ pc' = "deleted"
    /\ gl' = vlc_gl_renderer_Delete(renderer, gl)
    /\ renderer' = ZeroRenderer
    /\ call' = [NoCall EXCEPT !.op = "Delete", !.ret = "void"]
    /\ UNCHANGED <<conv, geom, mat, twin, enc, lb>>

Next == New \/ SetViewpoint \/ SetWindowAspectRatio \/ Prepare \/ Draw \/ Delete

Spec == Init /\ [][Next]_vars

(***************************************************************************)
(* The conversion matrix on its own: init_conv_matrix for every colour     *)
(* space and range, renderer_yuv_base_init for every YUV chroma, the range *)
(* correction for every sample depth, and the plane swap applied again and *)
(* again.  conv.orig is the matrix before the first swap.                  *)
(***************************************************************************)
MaxSwaps == 2

YuvChromas == {c \in Chromas : vlc_fourcc_IsYUV(c)}

ConvInit ==
    /\ conv.op = "none"
    /\ \E space \in ColorSpaces, range \in ColorRanges :
         \E m \in {init_conv_matrix(space, range)} :
             conv' = [NoConv EXCEPT !.op = "init_conv_matrix", !.space = space,
                                    !.range = range, !.matrix = m, !.orig = m]
    /\ UNCHANGED <<pc, renderer, gl, call, geom, mat, twin, enc, lb>>

ConvCorrect ==
    /\ conv.op = "init_conv_matrix"
    /\ conv.swaps = 0
    /\ \E chroma \in {c \in YuvChromas : vlc_fourcc_GetChromaDescription(c).pixel_size = 2} :
         \E m \in {RangeCorrect(conv.matrix,
                                yuv_range_correction(vlc_fourcc_GetChromaDescription(chroma)))} :
             conv' = [conv EXCEPT !.op = "range_correction", !.chroma = chroma,
                                  !.matrix = m, !.orig = m]
    /\ UNCHANGED <<pc, renderer, gl, call, geom, mat, twin, enc, lb>>

YuvBaseInit ==
    /\ conv.op = "none"
    \* fmt_range is the colour range of the format; the function is not handed it
    /\ \E chroma \in YuvChromas, space \in ColorSpaces, fmt_range \in ColorRanges :
         \E r \in {renderer_yuv_base_init(ZeroRenderer, chroma,
                                          vlc_fourcc_GetChromaDescription(chroma), space)} :
             /\ conv' = [NoConv EXCEPT !.op = "renderer_yuv_base_init", !.chroma = chroma,
                                       !.space = space, !.range = COLOR_RANGE_LIMITED,
                                       !.matrix = r.conv_matrix, !.orig = r.conv_matrix,
                                       !.fmt_range = fmt_range]
             /\ renderer' = r
    /\ UNCHANGED <<pc, gl, call, geom, mat, twin, enc, lb>>

PlaneSwap ==
    /\ conv.op # "none"
    /\ conv.swaps < MaxSwaps
    /\ conv' = [conv EXCEPT !.matrix = SwapUV(conv.matrix), !.swaps = @ + 1]
    /\ UNCHANGED <<pc, renderer, gl, call, geom, mat, twin, enc, lb>>

NextConv == ConvInit \/ ConvCorrect \/ YuvBaseInit \/ PlaneSwap

SpecConv == Init /\ [][NextConv]_vars

(***************************************************************************)
(* The meshes on their own: each builder for every padding of the grid,    *)
(* every small band count and every allocation that can fail.              *)
(***************************************************************************)
PadGrid == 24
MaxBands == 3
MaxSetups == 2

\* the padding fractions in [0, 1/2)
Pads == {Rat(k, PadGrid) : k \in {n \in 0..PadGrid : 2 * n < PadGrid}}

CubeBuild ==
    /\ geom.op = "none"
    /\ \E padW \in Pads, padH \in Pads, alloc_fail \in 0..3 :
         geom' = [NoGeom EXCEPT !.op = "BuildCube", !.padW = padW, !.padH = padH,
                                !.alloc_fail = alloc_fail,
                                !.mesh = BuildCube(padW, padH, alloc_fail)]
    /\ UNCHANGED <<pc, renderer, gl, call, conv, mat, twin, enc, lb>>

RectangleBuild ==
    /\ geom.op = "none"
    /\ \E alloc_fail \in 0..3 :
         geom' = [NoGeom EXCEPT !.op = "BuildRectangle", !.alloc_fail = alloc_fail,
                                !.mesh = BuildRectangle(alloc_fail)]
    /\ UNCHANGED <<pc, renderer, gl, call, conv, mat, twin, enc, lb>>

SphereBuild ==
    /\ geom.op = "none"
    /\ \E nbLatBands \in 1..MaxBands, nbLonBands \in 1..MaxBands, alloc_fail \in 0..3 :
         geom' = [NoGeom EXCEPT !.op = "BuildSphere", !.alloc_fail = alloc_fail,
                                !.mesh = BuildSphere(nbLatBands, nbLonBands, alloc_fail),
                                !.nbLatBands = nbLatBands, !.nbLonBands = nbLonBands,
                                !.writes = IF alloc_fail # 0 THEN NoWrites
                                           ELSE SphereWritten(nbLatBands, nbLonBands)]
    /\ UNCHANGED <<pc, renderer, gl, call, conv, mat, twin, enc, lb>>

\* the sphere of the code, 128 by 128 bands: its sizes and its index loop
SphereBuildFull ==
    /\ geom.op = "none"
    /\ \E alloc_fail \in 0..3 :
         geom' = [NoGeom EXCEPT !.op = "BuildSphere", !.alloc_fail = alloc_fail,
                                !.mesh = BuildSphereAlloc(nbBands, nbBands, alloc_fail),
                                !.nbLatBands = nbBands, !.nbLonBands = nbBands,
                                !.writes = IF alloc_fail # 0 THEN NoWrites
                                           ELSE SphereWritten(nbBands, nbBands)]
    /\ UNCHANGED <<pc, renderer, gl, call, conv, mat, twin, enc, lb>>

\* SetupCoords on a renderer whose three buffers exist, for every projection
\* and every allocation that can fail, and again on what the call before left
CoordsSetup ==
    /\ geom.op \in {"none", "SetupCoords"}
    /\ geom.setups < MaxSetups
    /\ \E setup \in Setups, alloc_fail \in 0..3 :
         \E res \in {SetupCoords([renderer EXCEPT !.fmt = setup.fmt,
                                                  !.vertex_buffer_object = 1,
                                                  !.index_buffer_object = 2,
                                                  !.texture_buffer_object = 3],
                                 gl, alloc_fail)} :
             /\ renderer' = res.r
             /\ gl' = res.g
             /\ geom' = [NoGeom EXCEPT !.op = "SetupCoords", !.alloc_fail = alloc_fail,
                                       !.setups = geom.setups + 1,
                                       !.ret = res.ret, !.heap = res.heap]
    /\ UNCHANGED <<pc, call, conv, mat, twin, enc, lb>>

NextGeom == CubeBuild \/ RectangleBuild \/ SphereBuild \/ SphereBuildFull \/ CoordsSetup

SpecGeom == Init /\ [][NextGeom]_vars

(***************************************************************************)
(* The shader generator on its own: every chroma of the table, texture     *)
(* target, colour space and build.                                         *)
(***************************************************************************)
ShaderInit ==
    /\ call.op = "none"
    /\ \E chroma \in Chromas, tex_target \in TexTargets, space \in ColorSpaces,
          build \in AllBuilds :
         LET setup == [fmt |-> Fmt(chroma, space, PROJECTION_MODE_RECTANGULAR,
                                   "MULTIVIEW_2D", "ORIENT_NORMAL", 0),
                       cfg |-> Cfg(tex_target, FALSE, TRUE)]
             interop == vlc_gl_interop_New(setup.fmt, setup.cfg)
         IN  \E res \in {opengl_fragment_shader_init(
                             [ZeroRenderer EXCEPT !.interop = interop], interop, build,
                             interop.tex_target, interop.sw_fmt.chroma,
                             interop.sw_fmt.space)} :
                 /\ renderer' = res.r
                 /\ call' = [NoCall EXCEPT
                               !.op = "opengl_fragment_shader_init", !.ret = res.ret,
                               !.setup = setup, !.build = build,
                               !.shader = [ret |-> res.ret, text |-> res.text,
                                           color_count |-> res.color_count,
                                           assert_failed |-> res.assert_failed]]
    /\ UNCHANGED <<pc, gl, conv, geom, mat, twin, enc, lb>>

NextShader == ShaderInit

SpecShader == Init /\ [][NextShader]_vars

(***************************************************************************)
(* opengl_link_program on its own, on a renderer that holds its interop:   *)
(* every format, build and environment.                                    *)
(***************************************************************************)
LinkEnvs == {e \in Envs : e.fault \in {"none", "build"}}

LinkProgram ==
    /\ pc = "none"
    /\ call.op = "none"
    /\ \E setup \in Setups, build \in Builds, env \in LinkEnvs :
         \E link \in {opengl_link_program(
                          [ZeroRenderer EXCEPT
                              !.interop = vlc_gl_interop_New(setup.fmt, setup.cfg)],
                          [gl EXCEPT !.interop = "live"], build, env)} :
             /\ pc' = IF link.ret \in {"abort", "fault"} THEN link.ret ELSE "linked"
             /\ renderer' = link.r
             /\ gl' = link.g
             /\ call' = [NoCall EXCEPT !.op = "opengl_link_program", !.ret = link.ret,
                                       !.setup = setup, !.build = build, !.env = env]
    /\ UNCHANGED <<conv, geom, mat, twin, enc, lb>>

NextLink == LinkProgram

SpecLink == Init /\ [][NextLink]_vars

(***************************************************************************)
(* Two renderers of the same 360 degree format, each with its own history  *)
(* of SetViewpoint and SetWindowAspectRatio calls: renderer takes the      *)
(* first history, twin.renderer the second.                                *)
(***************************************************************************)
TwinSetups ==
    {s \in Setups : s.fmt.projection_mode \in {PROJECTION_MODE_EQUIRECTANGULAR,
                                                PROJECTION_MODE_CUBEMAP_LAYOUT_STANDARD}}

TwinViewpoints == {v \in Viewpoints : v.fov \in {1500, 2000, 2003, 8000, 12000}}

Viewed(h, p_vp, ret) ==
    IF ret # VLC_SUCCESS THEN h
    ELSE [h EXCEPT !.vp = p_vp,
                   !.fov = IF Abs(p_vp.fov - @) >= FovChangeThreshold THEN p_vp.fov ELSE @]

TwinNew ==
    /\ pc = "none"
    /\ twin.pc = "none"
    /\ \E setup \in TwinSetups :
         \E new \in {vlc_gl_renderer_New(gl, setup.fmt, setup.cfg, NoBuild, NoEnv)} :
             /\ new.ret = "renderer"
             /\ pc' = "live"
             /\ renderer' = new.r
             /\ gl' = new.g
             /\ twin' = [NoTwin EXCEPT !.pc = "live", !.renderer = new.r]
             /\ call' = [NoCall EXCEPT !.op = "New", !.ret = new.ret, !.setup = setup]
    /\ UNCHANGED <<conv, geom, mat, enc, lb>>

TwinSetViewpoint ==
    /\ pc = "live"
    /\ twin.pc = "live"
    /\ \E p_vp \in TwinViewpoints :
         \/ LET res == vlc_gl_renderer_SetViewpoint(renderer, p_vp)
            IN  /\ renderer' = res.r
                /\ twin' = [twin EXCEPT !.first = Viewed(@, p_vp, res.ret)]
                /\ call' = [NoCall EXCEPT !.op = "SetViewpoint", !.ret = res.ret, !.vp = p_vp]
         \/ LET res == vlc_gl_renderer_SetViewpoint(twin.renderer, p_vp)
            IN  /\ renderer' = renderer
                /\ twin' = [twin EXCEPT !.renderer = res.r,
                                         !.second = Viewed(@, p_vp, res.ret)]
                /\ call' = [NoCall EXCEPT !.op = "SetViewpoint", !.ret = res.ret, !.vp = p_vp]
    /\ UNCHANGED <<pc, gl, conv, geom, mat, enc, lb>>

TwinSetWindowAspectRatio ==
    /\ pc = "live"
    /\ twin.pc = "live"
    /\ \E f_sar \in SarValues :
         /\ \/ /\ renderer' = vlc_gl_renderer_SetWindowAspectRatio(renderer, f_sar)
               /\ twin' = [twin EXCEPT !.first.sar = f_sar]
            \/ /\ renderer' = renderer
               /\ twin' = [twin EXCEPT
                             !.renderer = vlc_gl_renderer_SetWindowAspectRatio(@, f_sar),
                             !.second.sar = f_sar]
         /\ call' = [NoCall EXCEPT !.op = "SetWindowAspectRatio", !.ret = "void",
                                   !.sar = f_sar]
    /\ UNCHANGED <<pc, gl, conv, geom, mat, enc, lb>>

NextTwin == TwinNew \/ TwinSetViewpoint \/ TwinSetWindowAspectRatio

SpecTwin == Init /\ [][NextTwin]_vars

(***************************************************************************)
(* The orientation and stereo matrices on their own.  The vertex shader    *)
(* multiplies the picture coordinates by OrientationMatrix; applying an    *)
(* orientation again multiplies the column-major 4x4 matrices.             *)
(***************************************************************************)
MaxCompose == 2

\* a * b for column-major 4x4 matrices: entry [column * 4 + row]
MatMul4(a, b) ==
    [i \in 1..16 |->
        LET c == (i - 1) \div 4
            r == (i - 1) % 4
        IN  a[0 * 4 + r + 1] * b[c * 4 + 0 + 1] + a[1 * 4 + r + 1] * b[c * 4 + 1 + 1]
            + a[2 * 4 + r + 1] * b[c * 4 + 2 + 1] + a[3 * 4 + r + 1] * b[c * 4 + 3 + 1]]

OrientationApply ==
    /\ Len(mat.orient) < MaxCompose
    /\ \E orientation \in Orientations :
         mat' = [mat EXCEPT !.orient = Append(@, orientation),
                            !.matrix = MatMul4(getOrientationTransformMatrix(orientation), @)]
    /\ UNCHANGED <<pc, renderer, gl, call, conv, geom, twin, enc, lb>>

StereoInit ==
    /\ mat.multiview_mode = "none"
    /\ \E multiview_mode \in MultiviewModes :
         mat' = [mat EXCEPT !.multiview_mode = multiview_mode,
                            !.stereo = InitStereoMatrix(multiview_mode)]
    /\ UNCHANGED <<pc, renderer, gl, call, conv, geom, twin, enc, lb>>

NextMatrix == OrientationApply \/ StereoInit

SpecMatrix == Init /\ [][NextMatrix]_vars

(***************************************************************************)
(* The encoder set-up on its own: every value of the two tile options and  *)
(* of the bit depth, and every step that can fail.                         *)
(***************************************************************************)
EncFaults ==
    {"none", "malloc", "config_default", "height", "width", "timebase", "tile_rows",
     "tile_cols", "context"}

EncVideo ==
    [i_visible_width |-> 12, i_visible_height |-> 8, i_frame_rate |-> 25, i_frame_rate_base |-> 1]

EncoderOpen ==
    /\ enc.op = "none"
    /\ \E fmt_out_codec \in {VLC_CODEC_AV1, "VLC_CODEC_H264"},
          tile_rows \in 0..TileOptionMax, tile_columns \in 0..TileOptionMax,
          bitdepth \in BitDepths, fault \in EncFaults :
         LET opt == [tile_rows |-> tile_rows, tile_columns |-> tile_columns,
                     bitdepth |-> bitdepth]
         IN  enc' = [op |-> "OpenEncoder", fmt_out_codec |-> fmt_out_codec, opt |-> opt,
                     fault |-> fault,
                     encoder |-> OpenEncoder(fmt_out_codec, EncVideo, opt, fault)]
    /\ UNCHANGED <<pc, renderer, gl, call, conv, geom, mat, twin, lb>>

NextEnc == EncoderOpen

SpecEnc == Init /\ [][NextEnc]_vars

(***************************************************************************)
(* The ListenBrainz plugin: Open, the callbacks of the playlist, the       *)
(* player and the timer as the player thread runs them, the steps of the   *)
(* submission thread, and Close.  Callbacks take the mutex around the      *)
(* queue; the two vlc_vector_clear calls do not, so a push can fall into   *)
(* them.  SpecListen runs the callbacks on every input while the thread    *)
(* is kept waiting; SpecSubmit runs the thread and Close against a player  *)
(* that plays audio items one after the other.                             *)
(***************************************************************************)
Item(id, artist, title, album, trackid, tracknum, duration) ==
    LET text(has) == IF has THEN << id >> ELSE << >>
    IN  [id |-> id, Artist |-> text(artist), Title |-> text(title), Album |-> text(album),
         TrackID |-> text(trackid), TrackNum |-> text(tracknum), Duration |-> duration]

Items ==
    { Item("A", TRUE, TRUE, TRUE, TRUE, TRUE, 200 * TicksPerSec),
      Item("B", TRUE, TRUE, FALSE, FALSE, FALSE, 200 * TicksPerSec),
      Item("N", FALSE, TRUE, FALSE, FALSE, FALSE, 200 * TicksPerSec) }

\* the times the timer reports, in ticks
TimerPoints == {30 * TicksPerSec - 1, 30 * TicksPerSec}

\* the callbacks run while the plugin state exists
Alive == lb.state \in {"open", "clearing", "removing"}

\* what a vlc_vector_clear leaves of a queue that grew from length n on
\* while it ran: the push came first and is lost, came last and is kept, or
\* met the clear half way
Cleared(l, n) ==
    IF Len(l.sys.p_queue) <= n
    THEN {[l EXCEPT !.sys.p_queue = << >>]}
    ELSE {[l EXCEPT !.sys.p_queue = << >>],
          [l EXCEPT !.sys.p_queue = SubSeq(@, n + 1, Len(@))],
          [l EXCEPT !.sys.p_queue = << >>, !.corrupt = TRUE]}

PluginOpen ==
    /\ lb.state = "none"
    /\ \E fault \in OpenFaults :
         \E res \in {Open(fault)} :
            lb' = [lb EXCEPT !.state = IF res.ret = VLC_SUCCESS THEN "open" ELSE "failed",
                             !.ret = res.ret, !.sys = res.sys,
                             !.registered = res.registered,
                             !.thread.pc = IF res.thread THEN "top" ELSE "none"]
    /\ UNCHANGED <<pc, renderer, gl, call, conv, geom, mat, twin, enc>>

\* vlc_player_GetCurrentMedia
CurrentMedia == IF lb.media = "none" THEN NoItem ELSE CHOOSE item \in Items : item.id = lb.media

\* the item id begins to play
Begins(listened, id) == listened \ {id}

\* on_current_index_changed, the player holding any of the items by then
ItemChangedOn(indexes, videos, items, preparseds) ==
    /\ Alive /\ "playlist" \in lb.registered
    /\ \E index \in indexes, video \in videos, item \in items, preparsed \in preparseds :
         lb' = [lb EXCEPT !.sys = PlaylistItemChanged(@, index, video, item, preparsed),
                          !.media = item.id,
                          !.listened = Begins(@, item.id)]
    /\ UNCHANGED <<pc, renderer, gl, call, conv, geom, mat, twin, enc>>

\* on_state_changed; with STOPPED the play of the item is over
StateChangedOn(states, videos) ==
    /\ Alive /\ "player" \in lb.registered
    /\ \E state \in states, video \in videos :
         lb' = [lb EXCEPT !.sys = PlayerStateChanged(@, state, video, CurrentMedia),
                          !.listened = IF state = "STOPPED" THEN Begins(@, lb.media) ELSE @]
    /\ UNCHANGED <<pc, renderer, gl, call, conv, geom, mat, twin, enc>>

\* on_update of the timer, for the item the player holds
TimerUpdateOn(points) ==
    /\ "timer" \in lb.registered
    /\ lb.media # "none"
    /\ \E ts \in points :
         lb' = IF Alive
               THEN [lb EXCEPT !.sys = UpdateState(@, ts),
                               !.listened = IF SEC_FROM_VLC_TICK(ts) >= 30
                                            THEN @ \cup {lb.media} ELSE @]
               \* p_sys was freed
               ELSE [lb EXCEPT !.uaf = TRUE]
    /\ UNCHANGED <<pc, renderer, gl, call, conv, geom, mat, twin, enc>>

\* the callbacks on every input
ItemChanged == ItemChangedOn({0, 1}, BOOLEAN, Items \cup {NoItem}, BOOLEAN)
StateChanged == StateChangedOn({PlayerStates[i] : i \in 1..Len(PlayerStates)}, BOOLEAN)
TimerUpdate == TimerUpdateOn(TimerPoints)

NextListen == PluginOpen \/ ItemChanged \/ StateChanged \/ TimerUpdate

SpecListen == Init /\ [][NextListen]_vars

\* the callbacks of a player that goes from one preparsed audio item to the
\* next, reports 30 seconds of it, and stops
AudioItems == {item \in Items : item.Artist # << >>}
NextItem == ItemChangedOn({1}, {FALSE}, AudioItems, {TRUE})
Stopped == StateChangedOn({"STOPPED"}, {FALSE})
Tick == TimerUpdateOn({30 * TicksPerSec})

\* the top of the loop: the wait of 60 seconds when b_wait is set
RunTop ==
    /\ lb.state = "open" /\ lb.thread.pc = "top"
    /\ lb' = [lb EXCEPT !.thread.pc = "cond", !.thread.waited = lb.thread.b_wait]
    /\ UNCHANGED <<pc, renderer, gl, call, conv, geom, mat, twin, enc>>

\* vlc_cond_wait until the queue holds a listen
RunCond ==
    /\ lb.state = "open" /\ lb.thread.pc = "cond"
    /\ lb.sys.p_queue # << >>
    /\ lb' = [lb EXCEPT !.thread.pc = "payload"]
    /\ UNCHANGED <<pc, renderer, gl, call, conv, geom, mat, twin, enc>>

RunPayload ==
    /\ lb.state = "open" /\ lb.thread.pc = "payload"
    /\ \E mem_ok \in BOOLEAN :
         \E res \in {PreparePayload(lb.sys, mem_ok)} :
            lb' = [lb EXCEPT !.sys = res.sys,
                             !.thread.pc = IF res.i_status # 0 THEN "exited" ELSE "request"]
    /\ UNCHANGED <<pc, renderer, gl, call, conv, geom, mat, twin, enc>>

RunRequest ==
    /\ lb.state = "open" /\ lb.thread.pc = "request"
    /\ \E mem_ok \in BOOLEAN :
         \E res \in {PrepareRequest(lb.sys, mem_ok)} :
            lb' = [lb EXCEPT !.sys = res.sys,
                             !.thread.pc = IF res.i_status # 0 THEN "exited" ELSE "send"]
    /\ UNCHANGED <<pc, renderer, gl, call, conv, geom, mat, twin, enc>>

\* SendRequest up to the answer; with OK the queue is about to be cleared
RunSend ==
    /\ lb.state = "open" /\ lb.thread.pc = "send"
    /\ \E outcome \in Outcomes :
         IF outcome = "OK"
         THEN lb' = [lb EXCEPT !.thread.pc = "clearing",
                               !.thread.clearing = Len(lb.sys.p_queue)]
         ELSE \E res \in {SendRequest(lb.sys, outcome)} :
                 lb' = [lb EXCEPT !.sys = res.sys, !.thread.pc = "top",
                                  !.thread.b_wait = res.ret # 0,
                                  !.thread.last = IF res.ret # 0 THEN "failed" ELSE "OK"]
    /\ UNCHANGED <<pc, renderer, gl, call, conv, geom, mat, twin, enc>>

\* the rest of SendRequest after an OK, and b_wait = 0
RunClear ==
    /\ lb.state = "open" /\ lb.thread.pc = "clearing"
    /\ \E l \in Cleared([lb EXCEPT !.sys.request = SendRequest(lb.sys, "OK").sys.request],
                        lb.thread.clearing) :
         lb' = [l EXCEPT !.thread.pc = "top", !.thread.b_wait = FALSE, !.thread.last = "OK",
                         !.thread.clearing = 0]
    /\ UNCHANGED <<pc, renderer, gl, call, conv, geom, mat, twin, enc>>

\* Close: vlc_cancel and vlc_join.  The thread acts on a cancellation in
\* vlc_tick_wait and in vlc_cond_wait.
CloseJoin ==
    /\ lb.state = "open"
    /\ \/ lb.thread.pc = "exited"
       \/ lb.thread.pc = "top" /\ lb.thread.b_wait
       \/ lb.thread.pc = "cond" /\ lb.sys.p_queue = << >>
    /\ lb' = [lb EXCEPT !.state = "clearing", !.thread.pc = "joined",
                        !.thread.clearing = Len(lb.sys.p_queue)]
    /\ UNCHANGED <<pc, renderer, gl, call, conv, geom, mat, twin, enc>>

\* Close: vlc_vector_clear and vlc_UrlClean
CloseClear ==
    /\ lb.state = "clearing"
    /\ \E l \in Cleared(lb, lb.thread.clearing) :
         lb' = [l EXCEPT !.state = "removing", !.thread.clearing = 0]
    /\ UNCHANGED <<pc, renderer, gl, call, conv, geom, mat, twin, enc>>

\* Close: the listeners it removes, and free
CloseRemove ==
    /\ lb.state = "removing"
    /\ lb' = [lb EXCEPT !.state = "closed",
                        !.registered = @ \ {"player", "playlist"},
                        !.sys = NoSys]
    /\ UNCHANGED <<pc, renderer, gl, call, conv, geom, mat, twin, enc>>

NextSubmit ==
    \/ PluginOpen \/ NextItem \/ Stopped \/ Tick
    \/ RunTop \/ RunCond \/ RunPayload \/ RunRequest \/ RunSend \/ RunClear
    \/ CloseJoin \/ CloseClear \/ CloseRemove

SpecSubmit == Init /\ [][NextSubmit]_vars

(***************************************************************************)
(* Properties.                                                             *)
(***************************************************************************)
Range(f) == {f[i] : i \in DOMAIN f}

\* C1, as the claim states it: vlc_gl_renderer_SetViewpoint fails for a fov
\* equal to FIELD_OF_VIEW_DEGREES_MIN, equal to FIELD_OF_VIEW_DEGREES_MAX or
\* outside the interval, and succeeds for a fov strictly between the bounds.
C1_RejectsAtBounds ==
    call.op = "SetViewpoint" =>
        IF FIELD_OF_VIEW_DEGREES_MIN < call.vp.fov /\ call.vp.fov < FIELD_OF_VIEW_DEGREES_MAX
        THEN call.ret = VLC_SUCCESS
        ELSE call.ret # VLC_SUCCESS

\* C1, amended: vlc_gl_renderer_SetViewpoint fails with VLC_EBADVAR exactly for
\* a fov below FIELD_OF_VIEW_DEGREES_MIN or above FIELD_OF_VIEW_DEGREES_MAX,
\* and succeeds for every fov from the one bound to the other, bounds included.
C1_RejectsOutsideBounds ==
    call.op = "SetViewpoint" =>
        IF FIELD_OF_VIEW_DEGREES_MIN <= call.vp.fov /\ call.vp.fov <= FIELD_OF_VIEW_DEGREES_MAX
        THEN call.ret = VLC_SUCCESS
        ELSE call.ret = VLC_EBADVAR

C1_AcceptedAtBound ==
    /\ call.op = "SetViewpoint"
    /\ call.vp.fov = FIELD_OF_VIEW_DEGREES_MAX
    /\ call.ret = VLC_SUCCESS
    /\ renderer.f_fovx = FIELD_OF_VIEW_DEGREES_MAX

\* C2: a live renderer whose projection mode is rectangular has
\* ProjectionMatrix, ZoomMatrix and ViewMatrix equal to the identity, after
\* construction and after every SetViewpoint and SetWindowAspectRatio.
C2_FlatIsIdentity ==
    (pc = "live" /\ renderer.fmt.projection_mode = PROJECTION_MODE_RECTANGULAR) =>
        /\ renderer.ProjectionMatrix = identity
        /\ renderer.ZoomMatrix = identity
        /\ renderer.ViewMatrix = identity

C2_FlatAfterViewpoint ==
    /\ pc = "live"
    /\ renderer.fmt.projection_mode = PROJECTION_MODE_RECTANGULAR
    /\ call.op = "SetViewpoint"
    /\ call.ret = VLC_SUCCESS
    /\ renderer.vp.yaw # 0
    /\ renderer.f_sar # 0
    /\ renderer.ViewMatrix = identity

InUnit(q) == RLeq(RInt(0), q) /\ RLeq(q, RInt(1))

UVInUnit(mesh) == \A i \in 1..Len(mesh.textureCoord) : InUnit(mesh.textureCoord[i])

\* C3, as the claim states it: for padW and padH in [0, 1/2) each of the 24 UV
\* coordinates BuildCube emits has both components in [0, 1].
C3_CubeUVHalf ==
    (geom.op = "BuildCube" /\ geom.mesh.ret = VLC_SUCCESS) =>
        (Len(geom.mesh.textureCoord) = 2 * 24 /\ UVInUnit(geom.mesh))

\* C3, amended: for padW in [0, 1/3] and padH in [0, 1/2) each of the 24 UV
\* coordinates BuildCube emits has both components in [0, 1].
C3_CubeUVThird ==
    (geom.op = "BuildCube" /\ geom.mesh.ret = VLC_SUCCESS /\ RLeq(geom.padW, Rat(1, 3))) =>
        (Len(geom.mesh.textureCoord) = 2 * 24 /\ UVInUnit(geom.mesh))

C3_CubePadded ==
    /\ geom.op = "BuildCube"
    /\ geom.mesh.ret = VLC_SUCCESS
    /\ RLeq(Rat(1, 4), geom.padW) /\ RLeq(geom.padW, Rat(1, 3))
    /\ RLeq(Rat(1, 4), geom.padH)
    /\ UVInUnit(geom.mesh)

\* C4: vlc_gl_renderer_Prepare recomputes TexCoordsMap exactly when the
\* picture's visible region differs from the one last prepared, and after
\* every Prepare the stored TexCoordsMap of each texture unit is what a
\* recomputation from that picture's visible region gives.
C4_CropMapCached ==
    [][call'.op = "Prepare" =>
         /\ call'.recomputed = (Region(call'.source) # renderer.last_source)
         /\ renderer'.last_source = Region(call'.source)
         /\ \A j \in 1..renderer'.interop.tex_count :
                renderer'.TexCoordsMap[j] = CropMatrix(renderer', j, call'.source)]_vars

C4_Reused ==
    /\ call.op = "Prepare"
    /\ ~call.recomputed
    /\ call.source.i_x_offset # 0
    /\ renderer.TexCoordsMap[1] # ZeroMap

\* the uniform and attribute names opengl_link_program asks the program for
Queried(r) ==
    Range(CoreNames(r.interop))
    \cup (IF r.pf_fetch_locations = "renderer_xyz12_fetch_locations"
          THEN {"Texture0"}
          ELSE Range(BaseFetchNames(r, r.interop)))

GpuBalanced == \A o \in GLObjects : gl.deleted[o] = gl.created[o]

NoSwizzleEntry(chroma) ==
    /\ vlc_fourcc_IsYUV(chroma)
    /\ vlc_fourcc_GetChromaDescription(chroma).plane_count # 0
    /\ \/ /\ vlc_fourcc_GetChromaDescription(chroma).plane_count = 1
          /\ chroma \notin {"VLC_CODEC_UYVY", "VLC_CODEC_YUYV", "VLC_CODEC_VYUY",
                            "VLC_CODEC_YVYU"}
       \/ vlc_fourcc_GetChromaDescription(chroma).plane_count \notin {1, 2, 3}

\* C7: for a YUV chroma without an entry in the swizzle table, whatever its
\* plane count, opengl_fragment_shader_init returns NULL (or stops at the
\* "missing chroma" assertion of the table) and has emitted no source.
C7_NoShaderWithoutSwizzle ==
    (call.op = "opengl_fragment_shader_init" /\ NoSwizzleEntry(call.setup.fmt.chroma)) =>
        /\ \/ call.shader.ret = "NULL"
           \/ call.shader.ret = "abort" /\ call.shader.assert_failed = "missing chroma"
        /\ call.shader.text = << >>

SamplerTypes == {"sampler2D", "sampler2DRect", "samplerExternalOES"}

Count(text, P(_)) == Cardinality({i \in 1..Len(text) : P(text[i])})

\* C8: for a BT.709 3-plane 8-bit YUV format with rectangular projection and
\* mono view the fragment shader of the program declares one ConvMatrix
\* uniform and three samplers, and a Draw issues one indexed draw of
\* triangles with 6 indices.
C8_FlatYuvDraw ==
    (/\ pc = "live"
     /\ vlc_fourcc_IsYUV(renderer.fmt.chroma)
     /\ vlc_fourcc_GetChromaDescription(renderer.fmt.chroma).plane_count = 3
     /\ vlc_fourcc_GetChromaDescription(renderer.fmt.chroma).pixel_bits = 8
     /\ renderer.fmt.space = "COLOR_SPACE_BT709"
     /\ renderer.fmt.projection_mode = PROJECTION_MODE_RECTANGULAR
     /\ renderer.fmt.multiview_mode = "MULTIVIEW_2D") =>
        /\ Count(gl.fragment_shader, LAMBDA st : st = <<"uniform", "mat4", "ConvMatrix">>) = 1
        /\ Count(gl.fragment_shader, LAMBDA st : Len(st) = 3 /\ st[3] = "ConvMatrix") = 1
        /\ Count(gl.fragment_shader,
                 LAMBDA st : Len(st) = 3 /\ st[1] = "uniform" /\ st[2] \in SamplerTypes) = 3
        /\ call.op = "Draw" =>
              /\ Len(gl.draws) = 1
              /\ gl.draws[1].call = "DrawElements"
              /\ gl.draws[1].mode = "GL_TRIANGLES"
              /\ gl.draws[1].count = 6

C8_FlatYuvDrawn ==
    /\ pc = "live"
    /\ renderer.fmt.chroma = "VLC_CODEC_I420"
    /\ renderer.fmt.space = "COLOR_SPACE_BT709"
    /\ renderer.fmt.projection_mode = PROJECTION_MODE_RECTANGULAR
    /\ renderer.fmt.multiview_mode = "MULTIVIEW_2D"
    /\ call.op = "Draw"
    /\ Len(gl.draws) = 1
    /\ gl.draws[1].count = 6
    /\ "ConvMatrix" \in gl.draws[1].uniforms

\* C9: whatever the colour space, the colour range, the sample size and depth
\* and the U/V swap, the bottom row of the conversion matrix is [0, 0, 0, 1]:
\* the column-major entries 3, 7 and 11 are 0 and entry 15 is 1.
C9_BottomRow ==
    conv.op # "none" =>
        /\ conv.matrix[3 + 1] = EntryZero
        /\ conv.matrix[7 + 1] = EntryZero
        /\ conv.matrix[11 + 1] = EntryZero
        /\ conv.matrix[15 + 1] = EntryOne

C9_CorrectedAndSwapped ==
    /\ conv.op \in {"renderer_yuv_base_init", "range_correction"}
    /\ vlc_fourcc_GetChromaDescription(conv.chroma).pixel_bits = 10
    /\ conv.matrix[0 + 1].s # RInt(1)
    /\ conv.swaps = 1
    /\ conv.matrix[15 + 1] = EntryOne

\* column-major: columns 1 and 2 of m are columns 2 and 1 of o, columns 0 and 3 agree
Exchanged(m, o) ==
    \A j \in 1..4 : /\ m[j] = o[j]
                    /\ m[4 + j] = o[8 + j]
                    /\ m[8 + j] = o[4 + j]
                    /\ m[12 + j] = o[12 + j]

\* C10: the plane swap exchanges columns 1 and 2 of the conversion matrix and
\* leaves columns 0 and 3 alone, so that two swaps give the matrix back.
C10_SwapInvolution ==
    /\ conv.op # "none" =>
          IF conv.swaps % 2 = 1 THEN Exchanged(conv.matrix, conv.orig)
          ELSE conv.matrix = conv.orig
    /\ (conv.op = "renderer_yuv_base_init" /\ conv.swaps = 0) =>
          LET plain == init_conv_matrix(conv.space, COLOR_RANGE_LIMITED)
          IN  \A j \in 1..4 :
                  /\ conv.matrix[j].b = plain[j].b
                  /\ conv.matrix[12 + j].b = plain[12 + j].b
                  /\ conv.matrix[4 + j].b =
                        (IF swap_uv(conv.chroma) THEN plain[8 + j].b ELSE plain[4 + j].b)
                  /\ conv.matrix[8 + j].b =
                        (IF swap_uv(conv.chroma) THEN plain[4 + j].b ELSE plain[8 + j].b)

C10_SwappedTwice ==
    /\ conv.op # "none"
    /\ conv.swaps = 2
    /\ conv.matrix = conv.orig
    /\ \E j \in 1..3 : conv.matrix[4 + j] # conv.matrix[8 + j]

\* C11: the matrix of ORIENT_ROTATED_180 times itself is the 4x4 identity, so
\* is the matrix of ORIENT_HFLIPPED times itself, and every entry of each of
\* the eight orientation matrices is -1, 0 or 1.
C11_HalfTurnAndFlipInvolutions ==
    /\ Cardinality(Orientations) = 8
    /\ \A o \in Orientations :
          (mat.orient = <<o>>) =>
              (Len(mat.matrix) = 16 /\ \A i \in 1..16 : mat.matrix[i] \in {-1, 0, 1})
    /\ \A o \in {"ORIENT_ROTATED_180", "ORIENT_HFLIPPED"} :
          (mat.orient = <<o, o>>) => mat.matrix = identityInt

C11_HalfTurnTwice ==
    /\ mat.orient = <<"ORIENT_ROTATED_180", "ORIENT_ROTATED_180">>
    /\ mat.matrix = identityInt
    /\ getOrientationTransformMatrix("ORIENT_ROTATED_180") # identityInt

\* C12: InitStereoMatrix gives, for side-by-side, the 3x3 identity with only
\* the X scale replaced by 1/2; for top-bottom, the identity with only the Y
\* scale replaced by 1/2; for mono and every other multiview mode the
\* identity; the translation entries (column 2, rows 0 and 1) are 0 always.
C12_StereoCropsOneAxis ==
    mat.multiview_mode # "none" =>
        /\ mat.stereo =
              CASE mat.multiview_mode = "MULTIVIEW_STEREO_SBS" ->
                      << Rat(1, 2), RInt(0), RInt(0),
                         RInt(0), RInt(1), RInt(0),
                         RInt(0), RInt(0), RInt(1) >>
                [] mat.multiview_mode = "MULTIVIEW_STEREO_TB" ->
                      << RInt(1), RInt(0), RInt(0),
                         RInt(0), Rat(1, 2), RInt(0),
                         RInt(0), RInt(0), RInt(1) >>
                [] OTHER ->
                      << RInt(1), RInt(0), RInt(0),
                         RInt(0), RInt(1), RInt(0),
                         RInt(0), RInt(0), RInt(1) >>
        /\ mat.stereo[2 * 3 + 0 + 1] = RInt(0)
        /\ mat.stereo[2 * 3 + 1 + 1] = RInt(0)

C12_TopBottomBuilt ==
    /\ mat.multiview_mode = "MULTIVIEW_STEREO_TB"
    /\ mat.stereo[1 * 3 + 1 + 1] = Rat(1, 2)
    /\ mat.stereo[0 * 3 + 0 + 1] = RInt(1)

\* C13: BuildSphere with B latitude and B longitude bands yields (B+1)^2
\* vertices and 6*B^2 indices, its index loop makes 6*B^2 stores that hit
\* 6*B^2 distinct slots of the index array (each slot once), and every index
\* stored is below the vertex count and fits an unsigned 16-bit integer.
C13_SphereIndexed ==
    (/\ geom.op = "BuildSphere"
     /\ geom.mesh.ret = VLC_SUCCESS
     /\ geom.nbLatBands = geom.nbLonBands) =>
        LET B == geom.nbLatBands
            mesh == geom.mesh
        IN  /\ mesh.nbVertices = (B + 1) * (B + 1)
            /\ mesh.nbIndices = 6 * B * B
            /\ geom.writes.nbWrites = 6 * B * B
            /\ geom.writes.nbSlots = 6 * B * B
            /\ geom.writes.slotsInArray
            /\ geom.writes.valuesAreVertices
            /\ geom.writes.valuesAreUShort
            /\ mesh.indices # << >> =>
                  /\ Len(mesh.indices) = mesh.nbIndices
                  /\ Len(mesh.vertexCoord) = 3 * mesh.nbVertices
                  /\ Len(mesh.textureCoord) = 2 * mesh.nbVertices
                  /\ \A w \in SphereIndexWrites(B, B) : mesh.indices[w[4] + 1] = w[5]
                  /\ \A i \in 1..Len(mesh.indices) :
                        /\ 0 <= mesh.indices[i] /\ mesh.indices[i] < mesh.nbVertices
                        /\ mesh.indices[i] <= GLushortMax

C13_FullSphere ==
    /\ geom.op = "BuildSphere"
    /\ geom.mesh.ret = VLC_SUCCESS
    /\ geom.nbLatBands = nbBands /\ geom.nbLonBands = nbBands
    /\ geom.mesh.nbVertices = 16641
    /\ geom.writes.nbSlots = 98304
    /\ geom.writes.valuesAreUShort

\* the stored FOVs, the camera distance and the three matrices agree
SameView(r1, r2) ==
    /\ r1.f_fovx = r2.f_fovx
    /\ r1.f_fovy = r2.f_fovy
    /\ r1.f_z = r2.f_z
    /\ r1.ProjectionMatrix = r2.ProjectionMatrix
    /\ r1.ZoomMatrix = r2.ZoomMatrix
    /\ r1.ViewMatrix = r2.ViewMatrix

\* C14, as the claim states it: two call histories on an equirectangular or
\* cubemap renderer that end with the same accepted viewpoint and the same
\* aspect ratio leave the same horizontal and vertical FOV, camera distance
\* and projection, zoom and view matrices.
C14_LastCallsDecide ==
    (/\ pc = "live" /\ twin.pc = "live"
     /\ twin.first.vp = twin.second.vp
     /\ twin.first.sar = twin.second.sar) =>
        SameView(renderer, twin.renderer)

\* C14, amended: two call histories that end with the same accepted viewpoint
\* and the same aspect ratio, and whose last accepted fov that was 0.001
\* radian or more away from the FOV stored at the time is the same, leave the
\* same horizontal and vertical FOV, camera distance and matrices; the stored
\* horizontal FOV is that fov, less than 0.001 radian from the viewpoint's.
C14_LastCallsAndKeptFovDecide ==
    /\ (/\ pc = "live" /\ twin.pc = "live"
        /\ twin.first.vp = twin.second.vp
        /\ twin.first.sar = twin.second.sar
        /\ twin.first.fov = twin.second.fov) =>
           SameView(renderer, twin.renderer)
    /\ (pc = "live" /\ twin.pc = "live") =>
           /\ renderer.f_fovx = twin.first.fov
           /\ twin.renderer.f_fovx = twin.second.fov
           /\ Abs(twin.first.fov - twin.first.vp.fov) < FovChangeThreshold
                 \/ twin.first.vp = ZeroViewpoint

C14_SameAfterDifferentOrder ==
    /\ pc = "live" /\ twin.pc = "live"
    /\ twin.first = twin.second
    /\ twin.first.vp.fov = 2003
    /\ twin.first.fov = 2000
    /\ twin.first.sar # 0
    /\ call.op = "SetWindowAspectRatio"
    /\ SameView(renderer, twin.renderer)
    /\ renderer.vp.yaw = 0

\* the statements of a shader text that declare a sampler, and those that fetch
SamplerDecls(text) ==
    {i \in 1..Len(text) : Len(text[i]) = 3 /\ text[i][1] = "uniform"
                                            /\ text[i][2] \in SamplerTypes}

Fetches(text) == {i \in 1..Len(text) : Len(text[i]) = 5 /\ text[i][1] = "fetch"}

\* C15: for every format family and every texture target, the shader text
\* opengl_fragment_shader_init returns declares each of its samplers with the
\* sampler type of the target (sampler2D, sampler2DRect, samplerExternalOES)
\* and fetches with the matching lookup function (texture2DRect for the
\* rectangle target, texture2D for the other two).
C15_SamplerMatchesTarget ==
    (call.op = "opengl_fragment_shader_init" /\ call.shader.ret = "text") =>
        LET text == call.shader.text
            tex_target == call.setup.cfg.tex_target
        IN  /\ SamplerDecls(text) # {}
            /\ Fetches(text) # {}
            /\ \A i \in SamplerDecls(text) :
                  text[i][2] = (CASE tex_target = GL_TEXTURE_2D -> "sampler2D"
                                  [] tex_target = GL_TEXTURE_RECTANGLE -> "sampler2DRect"
                                  [] tex_target = GL_TEXTURE_EXTERNAL_OES -> "samplerExternalOES")
            /\ \A i \in Fetches(text) :
                  text[i][3] = (IF tex_target = GL_TEXTURE_RECTANGLE THEN "texture2DRect"
                                ELSE "texture2D")

\* C16: for the GL_TEXTURE_RECTANGLE target the shader text returned declares
\* a TexSize uniform for every texture unit, and every texture fetch in it,
\* of a YUV format or not, is made with coordinates that were multiplied by
\* the TexSize of the unit fetched from.
C16_RectangleDenormalised ==
    (/\ call.op = "opengl_fragment_shader_init"
     /\ call.shader.ret = "text"
     /\ call.setup.cfg.tex_target = GL_TEXTURE_RECTANGLE) =>
        LET text == call.shader.text
            tex_count == vlc_gl_interop_New(call.setup.fmt, call.setup.cfg).tex_count
        IN  /\ \A j \in 0..(tex_count - 1) :
                  \E i \in 1..Len(text) : text[i] = <<"uniform", "vec2", "TexSize" \o ToString(j)>>
            /\ Fetches(text) # {}
            /\ \A i \in Fetches(text) :
                  \E j \in 0..(tex_count - 1) :
                      /\ text[i][4] = "Texture" \o ToString(j)
                      /\ i > 1
                      /\ text[i - 1] = <<"scale", "tex_coords", "TexSize" \o ToString(j)>>

\* a YUV chroma stored on 2 bytes per sample with the samples in the low bits
LowBits16(chroma) ==
    /\ vlc_fourcc_GetChromaDescription(chroma).pixel_size = 2
    /\ chroma \notin {"VLC_CODEC_P010", "VLC_CODEC_P016"}

\* the matrix renderer_yuv_base_init starts from, planes swapped where it swaps
Uncorrected(chroma, space) ==
    IF swap_uv(chroma) THEN SwapUV(init_conv_matrix(space, COLOR_RANGE_LIMITED))
    ELSE init_conv_matrix(space, COLOR_RANGE_LIMITED)

Sums(m) == [i \in 1..16 |-> m[i].b]

\* C18: the range matrix multiplied into the conversion matrix of a format is
\* the one of the format's colour range: MATRIX_COLOR_RANGE_FULL for a
\* full-range format, MATRIX_COLOR_RANGE_LIMITED for a limited-range one.
C18_RangeFollowsFormat ==
    (/\ conv.op = "renderer_yuv_base_init"
     /\ conv.swaps = 0
     /\ conv.fmt_range \in {"COLOR_RANGE_FULL", "COLOR_RANGE_LIMITED"}) =>
        LET expected == init_conv_matrix(conv.space, conv.fmt_range)
        IN  Sums(conv.matrix) =
                Sums(IF swap_uv(conv.chroma) THEN SwapUV(expected) ELSE expected)

(***************************************************************************)
(* Arithmetic on terms.  A term is read as k * atom: k an exact rational,  *)
(* atom the subterm that arithmetic cannot reduce (the result of a libm    *)
(* call, or a quotient by one), << >> standing for 1.  Angles count in     *)
(* hundredths of a degree, the one unit of every angle of a term.  The     *)
(* atoms compared by "lower_bounded_by" are positive: 1 / sinf(atanf(s))   *)
(* with s >= 0 lies between 1 and +infinity.                               *)
(***************************************************************************)
UnaryOps == {"tanf", "atanf", "sinf", "sqrtf", "cosf", "neg", "rad"}
BinaryOps == {"+", "-", "*", "/", "lower_bounded_by"}

\* the integers that occur in the terms of the FOV computations
TermNumbers ==
    {0, 1, 2} \cup FovValues \cup {z_thresh, FIELD_OF_VIEW_DEGREES_MAX - z_thresh,
                                    FIELD_OF_VIEW_DEGREES_MAX}

RECURSIVE TermLen(_, _)
TermLen(t, p) ==
    IF t[p] \in UnaryOps THEN 1 + TermLen(t, p + 1)
    ELSE IF t[p] \in BinaryOps
    THEN 1 + TermLen(t, p + 1) + TermLen(t, p + 1 + TermLen(t, p + 1))
    ELSE 1

RECURSIVE Lin(_, _)
Lin(t, p) ==
    LET whole == [k |-> RInt(1), atom |-> SubSeq(t, p, p + TermLen(t, p) - 1)]
        norm(v) == IF v.k[1] = 0 THEN [k |-> RInt(0), atom |-> << >>] ELSE v
        binary(a, b) ==
            CASE t[p] = "*" ->
                    IF a.atom = << >> THEN norm([k |-> RMul(a.k, b.k), atom |-> b.atom])
                    ELSE IF b.atom = << >> THEN norm([k |-> RMul(a.k, b.k), atom |-> a.atom])
                    ELSE whole
              [] t[p] = "/" ->
                    IF b.atom = << >> /\ b.k[1] # 0
                    THEN norm([k |-> RDiv(a.k, b.k), atom |-> a.atom])
                    ELSE whole
              [] t[p] = "+" ->
                    IF a.atom = b.atom THEN norm([k |-> RAdd(a.k, b.k), atom |-> a.atom])
                    ELSE whole
              [] t[p] = "-" ->
                    IF a.atom = b.atom THEN norm([k |-> RSub(a.k, b.k), atom |-> a.atom])
                    ELSE whole
              [] t[p] = "lower_bounded_by" ->
                    IF a.atom = b.atom THEN (IF RLeq(b.k, a.k) THEN a ELSE b)
                    ELSE whole
        negated(a) == [a EXCEPT !.k = RNeg(@)]
    IN  IF t[p] = "rad" THEN Lin(t, p + 1)
        ELSE IF t[p] = "neg" THEN negated(Lin(t, p + 1))
        ELSE IF t[p] \in UnaryOps THEN whole
        ELSE IF t[p] \in BinaryOps
        THEN binary(Lin(t, p + 1), Lin(t, p + 1 + TermLen(t, p + 1)))
        ELSE IF \E n \in TermNumbers : ToString(n) = t[p]
        THEN [k |-> RInt(CHOOSE n \in TermNumbers : ToString(n) = t[p]), atom |-> << >>]
        ELSE whole

\* the geometric minimum of the camera distance for the stored FOVs
ZMin(r) ==
    Neg(Div(One, Sinf(Atanf(Sqrtf(
        Add(Mul(Tanf(Div(Rad(r.f_fovx), Num(2))), Tanf(Div(Rad(r.f_fovx), Num(2)))),
            Mul(Tanf(Div(r.f_fovy, Num(2))), Tanf(Div(r.f_fovy, Num(2))))))))))

\* C19: on a live renderer the camera distance f_z is 0 while the stored
\* horizontal FOV is at most 90 degrees; above 90 degrees it is
\* z_min * (fov - 90) / (FIELD_OF_VIEW_DEGREES_MAX - 90), and always
\* z_min <= f_z <= 0, z_min being the geometric minimum for the stored FOVs
\* (a negative multiple of a positive quantity, so the bounds are bounds on
\* the factor: between 1 and 0 times z_min).
C19_LinearZoomOut ==
    pc = "live" =>
        \E z \in {Lin(renderer.f_z, 1)}, z_min \in {Lin(ZMin(renderer), 1)} :
            /\ z_min.k = RInt(-1)
            /\ z_min.atom # << >>
            /\ IF renderer.f_fovx <= 90 * 100
               THEN z = [k |-> RInt(0), atom |-> << >>]
               ELSE /\ z.atom = z_min.atom
                    /\ z.k = RMul(z_min.k, Rat(renderer.f_fovx - 90 * 100,
                                               FIELD_OF_VIEW_DEGREES_MAX - 90 * 100))
            /\ RLeq(z_min.k, z.k) /\ RLeq(z.k, RInt(0))
            /\ z.k # RInt(0) => z.atom = z_min.atom

C19_ZoomedOutHalfway ==
    /\ pc = "live"
    /\ call.op = "SetWindowAspectRatio"
    /\ renderer.f_fovx = 120 * 100
    /\ Lin(renderer.f_z, 1).k = Rat(-1, 2)
    /\ Lin(renderer.f_z, 1).atom = Lin(ZMin(renderer), 1).atom

\* how often free() was called on an array
Frees(heap, array) == Cardinality({i \in 1..Len(heap.freed) : heap.freed[i] = array})

\* alloc_fail - 1 arrays were allocated, each of them was freed once and
\* no other array was freed
GivenBack(heap, alloc_fail) ==
    /\ heap.allocated = SubSeq(<< "vertexCoord", "textureCoord", "indices" >>, 1, alloc_fail - 1)
    /\ \A array \in {"vertexCoord", "textureCoord", "indices"} :
         Frees(heap, array) = IF \E i \in 1..Len(heap.allocated) : heap.allocated[i] = array
                              THEN 1 ELSE 0

\* C20: when the first, second or third allocation of BuildRectangle,
\* BuildSphere or BuildCube fails, the builder returns VLC_ENOMEM and every
\* array it had allocated is freed exactly once; SetupCoords then returns
\* VLC_ENOMEM, uploads no buffer data and leaves nb_indices as it was.
C20_FailedBuildGivesBack ==
    [][geom'.alloc_fail # 0 =>
         /\ geom'.op \in {"BuildRectangle", "BuildSphere", "BuildCube"} =>
               /\ geom'.mesh.ret = VLC_ENOMEM
               /\ GivenBack(geom'.mesh.heap, geom'.alloc_fail)
         /\ geom'.op = "SetupCoords" =>
               /\ geom'.ret = VLC_ENOMEM
               /\ GivenBack(geom'.heap, geom'.alloc_fail)
               /\ gl'.buffer_data = gl.buffer_data
               /\ gl'.created = gl.created /\ gl'.deleted = gl.deleted
               /\ renderer'.nb_indices = renderer.nb_indices]_vars

C20_ThirdFailsAfterUpload ==
    /\ geom.op = "SetupCoords"
    /\ geom.setups = 2
    /\ geom.alloc_fail = 3
    /\ geom.ret = VLC_ENOMEM
    /\ geom.heap.freed = << "textureCoord", "vertexCoord" >>
    /\ renderer.fmt.projection_mode = PROJECTION_MODE_CUBEMAP_LAYOUT_STANDARD
    /\ renderer.nb_indices = 128 * 128 * 3 * 2
    /\ gl.buffer_data = {1, 2, 3}

\* the call got as far as the assertion that closes the sampling code
ReachedLastAssert ==
    /\ call.op = "opengl_fragment_shader_init"
    /\ call.setup.fmt.chroma # "VLC_CODEC_XYZ12"
    /\ call.shader.ret \in {"text", "abort"}
    /\ call.shader.assert_failed \notin {"missing chroma", "swizzle"}

\* C21: for every format that reaches the assertion closing the sampling
\* code of opengl_fragment_shader_init, YUV or not, a colour space other than
\* COLOR_SPACE_UNDEF comes with exactly 3 assembled colour components, and
\* the component index stays within PICTURE_PLANE_MAX.
C21_ThreeComponentsAsserted ==
    ReachedLastAssert =>
        /\ call.setup.fmt.space = "COLOR_SPACE_UNDEF" \/ call.shader.color_count = 3
        /\ call.shader.color_count <= PICTURE_PLANE_MAX

\* the value OpenEncoder gave the configuration for a key
ConfigValue(key) ==
    LET i == CHOOSE i \in 1..Len(enc.encoder.ra_config) : enc.encoder.ra_config[i][1] = key
    IN  enc.encoder.ra_config[i][2]

\* C24: the tile_rows and tile_cols given to the encoder configuration are
\* 2 to the power of the tile-rows and tile-columns options (log2 units,
\* 0 to 6; the option 0 gives 1 tile).
C24_TilesArePowersOfOption ==
    (enc.op = "OpenEncoder" /\ enc.encoder.ret = VLC_SUCCESS) =>
        /\ ConfigValue("tile_rows") = 2^enc.opt.tile_rows
        /\ ConfigValue("tile_cols") = 2^enc.opt.tile_columns

\* the listen a step pushed on the queue
Pushed == Len(lb'.sys.p_queue) > Len(lb.sys.p_queue)
LastPushed == lb'.sys.p_queue[Len(lb'.sys.p_queue)]

\* C22: a song is pushed on the submission queue only with an artist and a
\* title and after at least 30 seconds of that song were listened to,
\* whatever the sequence of playlist, player and timer events.
C22_QueuedAfterThirtySeconds ==
    [][Pushed =>
         /\ LastPushed.psz_artist # << >> /\ LastPushed.psz_title # << >>
         /\ LastPushed.psz_title[2] \in lb.listened]_vars

\* the items the texts of a song come from
SongItems(song) ==
    {text[Len(text)] : text \in {song.psz_artist, song.psz_title, song.psz_album,
                                  song.psz_musicbrainz_id, song.psz_track_number} \ {<< >>}}

\* C27: every listen on the queue has its artist, title, album, recording
\* id and track number from one media item, and once the metadata of an
\* item were read the current song holds no field of an earlier song.
C27_SongOfOneItem ==
    /\ \A i \in 1..Len(lb.sys.p_queue) : Cardinality(SongItems(lb.sys.p_queue[i])) <= 1
    /\ lb.sys.b_meta_read => SongItems(lb.sys.p_current_song) \subseteq {lb.media}

\* C23: a submission attempt that fails (no connection, write error, no
\* response, a response without OK) leaves the queue as it was and the
\* thread waits 60 seconds before its next attempt; the thread empties the
\* queue only after a response with OK, and the attempt that follows a
\* success, like the first one, begins without the wait.
C23_FailedAttemptKeepsQueueAndWaits ==
    [][/\ (lb.thread.pc = "send" /\ lb'.thread.pc = "top") =>
              /\ lb'.thread.last = "failed"
              /\ lb'.sys.p_queue = lb.sys.p_queue
              /\ lb'.thread.b_wait
       /\ (lb.thread.pc = "top" /\ lb'.thread.pc = "cond") =>
              lb'.thread.waited = (lb.thread.last = "failed")
       /\ (lb.state = "open" /\ Len(lb'.sys.p_queue) < Len(lb.sys.p_queue)) =>
              /\ lb.thread.pc = "clearing"
              /\ lb'.thread.last = "OK" /\ ~lb'.thread.b_wait]_vars

\* the thread sends again after a failed attempt and the wait
C23_RetryAfterWait ==
    /\ lb.thread.pc = "send" /\ lb.thread.last = "failed" /\ lb.thread.waited
    /\ lb.sys.p_queue # << >>

\* C25: the thread removes from the queue only listens that were part of
\* the request the server answered with OK, however the pushes of the
\* callbacks fall between PreparePayload, PrepareRequest and SendRequest.
C25_OnlyTransmittedRemoved ==
    [][(lb.state = "open" /\ Len(lb'.sys.p_queue) < Len(lb.sys.p_queue)) =>
           /\ lb.thread.pc = "clearing"
           /\ Len(lb.sys.p_queue) - Len(lb'.sys.p_queue) <= Listens(lb.sys.request)]_vars

\* a sequence of JSON tokens is well formed where each two neighbours are:
\* a comma stands between the end of a value and the start of the next, and
\* nowhere else
EndsValue(token) == token[1] \in {"member", "close"}
StartsValue(token) == token[1] \in {"member", "key", "open"}
WellFormed(tokens) ==
    \A i \in 1..(Len(tokens) - 1) :
        LET a == tokens[i]
            b == tokens[i + 1]
        IN  /\ a[1] = "comma" => StartsValue(b)
            /\ b[1] = "comma" => EndsValue(a)
            /\ (EndsValue(a) /\ StartsValue(b)) => FALSE
            /\ a[1] = "key" => b[1] = "open"

ListenType(tokens) ==
    LET i == CHOOSE i \in 1..Len(tokens) : tokens[i][1] = "member" /\ tokens[i][2] = "listen_type"
    IN  tokens[i][3]

\* C26: the payload PreparePayload made of a non-empty queue is a well-formed
\* JSON document: commas separate the listen objects and no comma is doubled
\* or trailing in track_metadata, with or without album and recording id;
\* listen_type is single exactly for one listen, and there is never none.
C26_PayloadWellFormed ==
    lb.thread.pc = "request" =>
        /\ WellFormed(lb.sys.payload)
        /\ (ListenType(lb.sys.payload) = "single") = (Listens(lb.sys.payload) = 1)
        /\ Listens(lb.sys.payload) >= 1

\* C28: when Close has returned, the playlist listener, the player listener
\* and the player timer that Open registered are all removed and no callback
\* has run on the freed state, and none is registered while Close clears the
\* queue.
C28_CloseRemovesEveryListener ==
    /\ lb.state = "closed" => lb.registered = {}
    /\ ~lb.uaf
    /\ lb.state = "clearing" => lb.registered = {}

Is360(r) ==
    r.fmt.projection_mode \in {PROJECTION_MODE_EQUIRECTANGULAR,
                               PROJECTION_MODE_CUBEMAP_LAYOUT_STANDARD}

\* C29: for an equirectangular or cubemap renderer the aspect ratio and the
\* vertical FOV that the projection matrix and the FOV were last computed
\* from are not zero, after construction and after every order of
\* set_viewpoint and set_window_aspect_ratio.
C29_AspectRatioInUseIsSet ==
    (pc = "live" /\ Is360(renderer)) =>
        /\ renderer.f_sar # 0
        /\ renderer.f_fovy # Zero

\* C30: a set_viewpoint rejected for its fov leaves the renderer as it was:
\* the stored viewpoint, the horizontal and the vertical FOV, the zoom
\* distance and the projection, zoom and view matrices keep their values.
C30_RejectedViewpointChangesNothing ==
    [][(call'.op = "SetViewpoint" /\ call'.ret = VLC_EBADVAR) =>
           /\ renderer'.vp = renderer.vp
           /\ renderer'.f_fovx = renderer.f_fovx
           /\ renderer'.f_fovy = renderer.f_fovy
           /\ renderer'.f_z = renderer.f_z
           /\ renderer'.ProjectionMatrix = renderer.ProjectionMatrix
           /\ renderer'.ZoomMatrix = renderer.ZoomMatrix
           /\ renderer'.ViewMatrix = renderer.ViewMatrix]_vars

\* a 360 renderer that holds an accepted viewpoint and an aspect ratio has
\* just rejected another viewpoint
C30_RejectedAfterAccepted ==
    /\ pc = "live" /\ Is360(renderer)
    /\ call.op = "SetViewpoint" /\ call.ret = VLC_EBADVAR
    /\ renderer.f_sar # 0
    /\ renderer.f_fovx # 0 /\ renderer.vp.yaw # 0
    /\ renderer.ViewMatrix # identity

====
